---- MODULE Spec2Model ----
(***************************************************************************)
(* YieldSyncx: Merkle batching and proof subsystem.                        *)
(*                                                                         *)
(* Two off-chain tree builders are modelled side by side:                  *)
(*   - MerkleTreeUtils          (lib/utils/merkleTreeUtils.ts)             *)
(*   - services/merkleTree      (buildLayers / generateMerkleTree)         *)
(* together with the IoTData contract (storeData, createBatch,             *)
(* verifyRecord) and the certificate page that rebuilds a tree from the    *)
(* records it reads back from the chain.                                   *)
(*                                                                         *)
(* Digests are modelled as finite sequences of naturals.  keccak256 is     *)
(* modelled as collision free on the bytes it is given: a leaf digest is   *)
(* <<1>>, the number of packed bytes and the packed bytes of the record    *)
(* (the strings back to back, without their lengths), a node digest is     *)
(* <<0>> followed by the two child digests.  The string comparison the     *)
(* code uses on hex digests is the lexicographic order on these sequences. *)
(***************************************************************************)
EXTENDS Integers, Sequences, FiniteSets, TLC

VARIABLES
    \* ---- off-chain tree builder (generateMerkleTree / verifyProof) ----
    impl,        \* which implementation runs: "utils" or "service"
    records,     \* the input list of SensorData records
    pc,          \* "start", "build", "done", "error", "verified", "tampered"
    layers,      \* layers built so far (layers[1] is the leaf layer)
    merkleRoot,  \* returned root (<<>> before the call returns)
    proofs,      \* returned proofs, proofs[i] for leaf index i-1
    vindex,      \* index of the leaf handed to verifyProof (0: none)
    vleaf,       \* arguments and result of the last verifyProof call
    vproof,
    vroot,
    vresult,
    tamper,      \* "none", "leaf", "proof", "root": what was replaced
    \* ---- IoTData contract and the certificate page ----
    now,                 \* block.timestamp (seconds)
    roles,               \* AccessControl's _roles: role -> accounts that hold it
    recordCounter,
    sensorRecords,       \* sequence of on-chain SensorData structs
    verifiedMerkleRoots, \* set of roots mapped to true
    dataBatches,         \* batchId -> DataBatch (a function on the ids written)
    batchList,
    deviceRecords,       \* deviceId -> ids of its records
    lastCall,            \* the last verifyRecord/getData call and what it returned
    sensorData,          \* the page's list of records read from chain
    devices,             \* the page's device options
    isLoading,
    pageRoot,            \* the page's merkleRoot ("" is <<>>)
    pageProof,           \* the page's merkleProof
    mounted,             \* whether the page component has been mounted
    loads,               \* loadDeviceData calls in flight, by the await they are at
    lastLoad,            \* (ghost) the record count the last finished load read
    \* ---- dataAggregation and anomalyDetection ----
    readings,            \* the caller's array, as it is after the call
    argument,            \* (ghost) the array as it was passed
    historicalReadings,  \* anomalyDetection's module-level cache, key -> readings
    aggregates,          \* the returned Map, as its entries in insertion order
    anomalies,           \* reports returned by detectBatchAnomalies
    sensorBatch,         \* merkleRoot and proofs returned by prepareSensorBatch
    aggPc,               \* "idle", "ready", "done", "threw", "extracted"
    sample,              \* what extractNumericValue returned
    calls,               \* number of service calls made so far
    \* ---- dataAggregation's offline store and the sync store ----
    db,                  \* the YieldSyncxSensorDB database: "absent", "empty", "ready"
    offline,             \* the sensorReadings object store, in key order
    storeCalls,          \* per call of storeSensorDataOffline: where it stands
    readCalls,           \* per call of getUnsyncedSensorData: where it stands
    opening,             \* the open requests on the database, in request order
    created,             \* whether createSyncStore has run
    connected,           \* the sync store's blockchainStore.connected
    isSyncing,
    syncError,           \* "null" or the message
    pendingCount,
    lastSyncTime,        \* 0 is null
    autoSyncEnabled,
    localStorage,        \* the item 'autoSyncEnabled': "null", "true" or "false"
    sync,                \* per caller: where its syncData call stands
    marked,              \* (ghost) the id arrays handed to markSensorDataAsSynced
    syncCalls,           \* number of syncData calls made so far
    \* ---- NFTData contract ----
    nftRoles,            \* AccessControl's members of each role
    tokenIds,            \* _tokenIds.current()
    certificates,        \* tokenId -> DataCertificate (a sequence: ids are 1..tokenIds)
    deviceCertificates,  \* deviceId -> token ids
    dataCertified,       \* set of data hashes mapped to true
    owners,              \* ERC721 owner of each token
    tokenURIs,           \* ERC721URIStorage URI of each token
    tokenApprovals,      \* ERC721 approved address of each token ("zero" is none)
    operatorApprovals,   \* ERC721 (owner, operator) pairs approved for all
    nftCall,             \* the last mintCertificate/revokeCertificate call and its outcome
    \* ---- blockchainStore ----
    bstate,              \* the store's State: connected, loading, contract
    connects,            \* connectWallet calls awaiting the wallet
    writes,              \* per call of storeData/createBatch: where it stands, its result
    \* ---- dataAggregation.calculateStatistics on its own ----
    numericValues,       \* the array handed to calculateStatistics
    statistics           \* what the call returned (<<>> before any call)

merkleVars == <<impl, records, pc, layers, merkleRoot, proofs,
                vindex, vleaf, vproof, vroot, vresult, tamper>>
chainVars  == <<now, roles, recordCounter, sensorRecords, verifiedMerkleRoots,
                dataBatches, batchList, deviceRecords, lastCall, sensorData, devices,
                isLoading, pageRoot, pageProof, mounted, loads, lastLoad>>
aggVars    == <<readings, argument, historicalReadings, aggregates, anomalies,
                sensorBatch, aggPc, sample, calls>>
syncVars   == <<db, offline, storeCalls, readCalls, opening, created, connected,
                isSyncing, syncError, pendingCount, lastSyncTime, autoSyncEnabled,
                localStorage, sync, marked, syncCalls>>
nftVars    == <<nftRoles, tokenIds, certificates, deviceCertificates, dataCertified,
                owners, tokenURIs, tokenApprovals, operatorApprovals, nftCall>>
storeVars  == <<bstate, writes, connects>>
statVars   == <<numericValues, statistics>>
appVars    == <<syncVars, nftVars, storeVars, statVars>>
vars == <<merkleVars, chainVars, aggVars, appVars>>

----------------------------------------------------------------------------
(* Bounds *)

MaxRecords == 5
MaxChainRecords == 2
MaxNow == 2
MaxBatches == 2

----------------------------------------------------------------------------
(* Digests and the hash primitive *)

Last(s) == s[Len(s)]

\* JavaScript string "<" on two hex digests: lexicographic order (smaller at
\* the first position where they differ, or a proper prefix).
LexLess(a, b) ==
    \/ \E i \in 1..Len(a) :
          /\ i <= Len(b)
          /\ a[i] < b[i]
          /\ \A j \in 1..(i - 1) : a[j] = b[j]
    \/ /\ Len(a) < Len(b)
       /\ \A j \in 1..Len(a) : a[j] = b[j]

\* ethers.solidityPackedKeccak256(['bytes32','bytes32'], [a, b])
keccakPair(a, b) == <<0>> \o a \o b

RECURSIVE utf8Bytes(_)
\* the UTF-8 bytes of a string of UTF-16 code units (no lone surrogate)
utf8Bytes(s) ==
    IF s = <<>> THEN <<>>
    ELSE LET c == s[1]
         IN IF c < 128 THEN <<c>> \o utf8Bytes(Tail(s))
            ELSE IF c < 2048
            THEN <<192 + (c \div 64), 128 + (c % 64)>> \o utf8Bytes(Tail(s))
            ELSE IF c >= 55296 /\ c <= 56319 /\ Len(s) >= 2
            THEN LET p == 65536 + (c - 55296) * 1024 + (s[2] - 56320)
                 IN <<240 + (p \div 262144), 128 + ((p \div 4096) % 64),
                      128 + ((p \div 64) % 64), 128 + (p % 64)>>
                    \o utf8Bytes(SubSeq(s, 3, Len(s)))
            ELSE <<224 + (c \div 4096), 128 + ((c \div 64) % 64), 128 + (c % 64)>>
                 \o utf8Bytes(Tail(s))

\* a uint256 packed: 32 bytes, most significant first (n below 2^31)
uint256Bytes(n) ==
    [i \in 1..32 |-> IF i < 29 THEN 0 ELSE (n \div (256^(32 - i))) % 256]

\* abi.encodePacked(string, uint256, string, string, string): the bytes of the
\* strings back to back, nothing between them, and the number in 32 bytes
encodePacked(deviceId, timestamp, data, dataType, location) ==
    utf8Bytes(deviceId) \o uint256Bytes(timestamp) \o utf8Bytes(data)
    \o utf8Bytes(dataType) \o utf8Bytes(location)

\* ethers.solidityPackedKeccak256(['string','uint256','string','string','string'], ...)
\* and keccak256(abi.encodePacked(...)) of the contract: the digest of the
\* packed bytes, so records with the same packed bytes have the same digest
keccakRecord(deviceId, timestamp, data, dataType, location) ==
    <<1, Len(encodePacked(deviceId, timestamp, data, dataType, location))>>
    \o encodePacked(deviceId, timestamp, data, dataType, location)

----------------------------------------------------------------------------
(* MerkleTreeUtils *)

sortPairs(left, right) ==
    IF LexLess(left, right) THEN <<left, right>> ELSE <<right, left>>

\* mutant: the pair is hashed in argument order, without sorting
hashNode_unsorted(left, right) == keccakPair(left, right)

hashNode(left, right) ==
    LET p == sortPairs(left, right) IN keccakPair(p[1], p[2])

generateLeaves(recs) ==
    [i \in 1..Len(recs) |->
        keccakRecord(recs[i].deviceId, recs[i].timestamp, recs[i].data,
                     recs[i].dataType, recs[i].location)]

RECURSIVE utilsPairUp(_, _)
\* the for loop of buildLayers from 0-based index i-1 on: i += 2
utilsPairUp(currentLayer, i) ==
    IF i > Len(currentLayer) THEN <<>>
    ELSE LET left  == currentLayer[i]
             right == IF i + 1 <= Len(currentLayer) /\ currentLayer[i + 1] # <<>>
                      THEN currentLayer[i + 1] ELSE left
         IN <<hashNode(left, right)>> \o utilsPairUp(currentLayer, i + 2)

\* mutant: the unpaired last element of an odd layer is dropped
utilsNextLayer_dropOdd(currentLayer) ==
    utilsPairUp(SubSeq(currentLayer, 1, 2 * (Len(currentLayer) \div 2)), 1)

utilsNextLayer(currentLayer) == utilsPairUp(currentLayer, 1)

----------------------------------------------------------------------------
(* services/merkleTree *)

\* the pair as given, not sorted
sortTwo_asGiven(left, right) == <<left, right>>

\* [left, right].sort(): default (string) order, stable
sortTwo(left, right) ==
    IF LexLess(right, left) THEN <<right, left>> ELSE <<left, right>>

\* the pair hashed in the order given
servicePairHash_asGiven(left, right) == keccakPair(left, right)

servicePairHash(left, right) ==
    LET p == sortTwo(left, right) IN keccakPair(p[1], p[2])

RECURSIVE servicePairUp(_, _)
servicePairUp(prev, i) ==
    IF i > Len(prev) THEN <<>>
    ELSE LET left  == prev[i]
             right == IF i + 1 <= Len(prev) THEN prev[i + 1] ELSE left
         IN <<servicePairHash(left, right)>> \o servicePairUp(prev, i + 2)

\* the unpaired last element of an odd layer is promoted unhashed
serviceNextLayer_promoteOdd(prev) ==
    servicePairUp(SubSeq(prev, 1, 2 * (Len(prev) \div 2)), 1)
    \o (IF Len(prev) % 2 = 1 THEN <<Last(prev)>> ELSE <<>>)

serviceNextLayer(prev) == servicePairUp(prev, 1)

----------------------------------------------------------------------------
(* Proof generation and verification *)

RECURSIVE utilsProofFrom(_, _, _)
\* MerkleTreeUtils.generateMerkleTree, the loop "for (i = 0; i < layers.length - 1; i++)"
\* from 1-based layer number i on; currentIndex is the 0-based index.
utilsProofFrom(lys, i, currentIndex) ==
    IF i > Len(lys) - 1 THEN <<>>
    ELSE LET layer        == lys[i]
             siblingIndex == IF currentIndex % 2 = 0
                             THEN currentIndex + 1 ELSE currentIndex - 1
             pushed       == IF siblingIndex < Len(layer)
                             THEN <<layer[siblingIndex + 1]>> ELSE <<>>
         IN pushed \o utilsProofFrom(lys, i + 1, currentIndex \div 2)

RECURSIVE utilsProofNoHalving(_, _, _)
\* mutant: the index is not halved when moving up a layer
utilsProofNoHalving(lys, i, currentIndex) ==
    IF i > Len(lys) - 1 THEN <<>>
    ELSE LET layer        == lys[i]
             siblingIndex == IF currentIndex % 2 = 0
                             THEN currentIndex + 1 ELSE currentIndex - 1
             pushed       == IF siblingIndex < Len(layer)
                             THEN <<layer[siblingIndex + 1]>> ELSE <<>>
         IN pushed \o utilsProofNoHalving(lys, i + 1, currentIndex)

utilsProof_noHalving(lys, index) == utilsProofNoHalving(lys, 1, index)

utilsProof(lys, index) == utilsProofFrom(lys, 1, index)

\* index ^ 1 on a non-negative integer: flip the lowest bit
xor1(index) == (index \div 2) * 2 + (1 - (index % 2))

RECURSIVE serviceProofFrom(_, _, _)
serviceProofFrom(lys, i, index) ==
    IF i > Len(lys) - 1 THEN <<>>
    ELSE LET layer     == lys[i]
             pairIndex == xor1(index)
             pushed    == IF pairIndex < Len(layer)
                          THEN <<layer[pairIndex + 1]>> ELSE <<>>
         IN pushed \o serviceProofFrom(lys, i + 1, index \div 2)

serviceProof(lys, idx) == serviceProofFrom(lys, 1, idx)

\* const merkleRoot = layers[layers.length - 1][0]
rootOf(lys) == Last(lys)[1]

RECURSIVE verifyFold(_, _)
\* the for-of loop of verifyProof
verifyFold(computedHash, proof) ==
    IF proof = <<>> THEN computedHash
    ELSE verifyFold(hashNode(computedHash, Head(proof)), Tail(proof))

\* mutant: returns true as soon as the running hash equals the root
verifyProof_earlyExit(leaf, proof, root) ==
    \E n \in 0..Len(proof) : verifyFold(leaf, SubSeq(proof, 1, n)) = root

\* mutant: an empty proof is rejected
verifyProof_rejectEmpty(leaf, proof, root) ==
    proof # <<>> /\ verifyFold(leaf, proof) = root

verifyProof(leaf, proof, root) == verifyFold(leaf, proof) = root

----------------------------------------------------------------------------
(* Inputs *)

Impls == {"utils", "service"}

\* "ab", "a", "c", "bc", "l", "d", "e"
Str_ab == <<97, 98>>
Str_a == <<97>>
Str_c == <<99>>
Str_bc == <<98, 99>>
Str_l == <<108>>
Str_d == <<100>>
Str_e == <<101>>

\* the timestamps of the records
Timestamps == {1, 2}

\* data and dataType of two readings whose packed bytes are the same
SplitPairs == {<<Str_ab, Str_c>>, <<Str_a, Str_bc>>}

\* SensorData records of one device at one location: a reading at every
\* timestamp, and at timestamp 1 a second reading with the same packed bytes
RecordUniverse ==
    {[deviceId |-> Str_d, timestamp |-> t, data |-> Str_ab, dataType |-> Str_c,
      location |-> Str_l] : t \in Timestamps}
    \cup {[deviceId |-> Str_d, timestamp |-> 1, data |-> Str_a, dataType |-> Str_bc,
           location |-> Str_l]}

RecordLists == UNION {[1..n -> RecordUniverse] : n \in 0..MaxRecords}

nextLayer(im, layer) ==
    IF im = "utils" THEN utilsNextLayer(layer) ELSE serviceNextLayer(layer)

proofOf(im, lys, index) ==
    IF im = "utils" THEN utilsProof(lys, index) ELSE serviceProof(lys, index)

Range(s) == {s[i] : i \in 1..Len(s)}

DigestsOf(lys) == UNION {Range(lys[k]) : k \in 1..Len(lys)}

\* digests an attacker may substitute: any leaf of the universe, any node of the tree
TamperDigests ==
    {keccakRecord(r.deviceId, r.timestamp, r.data, r.dataType, r.location) :
        r \in RecordUniverse} \cup DigestsOf(layers)

----------------------------------------------------------------------------
(* generateMerkleTree, step by step *)

MerkleInit ==
    /\ impl \in Impls
    /\ records \in RecordLists
    /\ pc = "start"
    /\ layers = <<>>
    /\ merkleRoot = <<>>
    /\ proofs = <<>>
    /\ vindex = 0
    /\ vleaf = <<>>
    /\ vproof = <<>>
    /\ vroot = <<>>
    /\ vresult = FALSE
    /\ tamper = "none"

emptyInputThrows_never(im, recs) == FALSE

\* utils: "if (leaves.length === 0) throw new Error('No leaves provided')";
\* service: "if (!records.length) throw new Error('No records for Merkle tree')"
emptyInputThrows(im, recs) ==
    IF im = "utils" THEN Len(generateLeaves(recs)) = 0 ELSE ~(Len(recs) # 0)

\* entry of generateMerkleTree: the empty-input check and the leaf layer
Start ==
    /\ pc = "start"
    /\ IF emptyInputThrows(impl, records)
       THEN /\ pc' = "error"
            /\ UNCHANGED layers
       ELSE /\ pc' = "build"
            /\ layers' = <<generateLeaves(records)>>
    /\ UNCHANGED <<impl, records, merkleRoot, proofs, vindex, vleaf, vproof,
                   vroot, vresult, tamper>>
    /\ UNCHANGED chainVars
    /\ UNCHANGED aggVars
    /\ UNCHANGED appVars

\* one iteration of "while (layers[layers.length - 1].length > 1)"
LoopStep ==
    /\ pc = "build"
    /\ Len(Last(layers)) > 1
    /\ layers' = Append(layers, nextLayer(impl, Last(layers)))
    /\ UNCHANGED <<impl, records, pc, merkleRoot, proofs, vindex, vleaf,
                   vproof, vroot, vresult, tamper>>
    /\ UNCHANGED chainVars
    /\ UNCHANGED aggVars
    /\ UNCHANGED appVars

\* loop exit: root and the proofs of every leaf
Finish ==
    /\ pc = "build"
    /\ ~(Len(Last(layers)) > 1)
    /\ merkleRoot' = rootOf(layers)
    /\ proofs' = [i \in 1..Len(layers[1]) |-> proofOf(impl, layers, i - 1)]
    /\ pc' = "done"
    /\ UNCHANGED <<impl, records, layers, vindex, vleaf, vproof, vroot,
                   vresult, tamper>>
    /\ UNCHANGED chainVars
    /\ UNCHANGED aggVars
    /\ UNCHANGED appVars

\* verifyProof(leaf_i, proofs[i], merkleRoot)
Verify(i) ==
    /\ pc = "done"
    /\ vindex' = i
    /\ vleaf' = layers[1][i + 1]
    /\ vproof' = proofs[i + 1]
    /\ vroot' = merkleRoot
    /\ vresult' = verifyProof(layers[1][i + 1], proofs[i + 1], merkleRoot)
    /\ tamper' = "none"
    /\ pc' = "verified"
    /\ UNCHANGED <<impl, records, layers, merkleRoot, proofs>>
    /\ UNCHANGED chainVars
    /\ UNCHANGED aggVars
    /\ UNCHANGED appVars

\* verifyProof again on a triple that verified, with one digest replaced
TamperLeaf(d) ==
    /\ pc = "verified" /\ vresult
    /\ d # vleaf
    /\ vleaf' = d
    /\ vresult' = verifyProof(d, vproof, vroot)
    /\ tamper' = "leaf"
    /\ pc' = "tampered"
    /\ UNCHANGED <<impl, records, layers, merkleRoot, proofs, vindex, vproof, vroot>>
    /\ UNCHANGED chainVars
    /\ UNCHANGED aggVars
    /\ UNCHANGED appVars

TamperProof(k, d) ==
    /\ pc = "verified" /\ vresult
    /\ k \in 1..Len(vproof)
    /\ d # vproof[k]
    /\ vproof' = [vproof EXCEPT ![k] = d]
    /\ vresult' = verifyProof(vleaf, [vproof EXCEPT ![k] = d], vroot)
    /\ tamper' = "proof"
    /\ pc' = "tampered"
    /\ UNCHANGED <<impl, records, layers, merkleRoot, proofs, vindex, vleaf, vroot>>
    /\ UNCHANGED chainVars
    /\ UNCHANGED aggVars
    /\ UNCHANGED appVars

TamperRoot(d) ==
    /\ pc = "verified" /\ vresult
    /\ d # vroot
    /\ vroot' = d
    /\ vresult' = verifyProof(vleaf, vproof, d)
    /\ tamper' = "root"
    /\ pc' = "tampered"
    /\ UNCHANGED <<impl, records, layers, merkleRoot, proofs, vindex, vleaf, vproof>>
    /\ UNCHANGED chainVars
    /\ UNCHANGED aggVars
    /\ UNCHANGED appVars


----------------------------------------------------------------------------
(* services/merkleTree.generateMerkleTree as one call *)

RECURSIVE serviceBuildLayersFrom(_)
\* while (layers.at(-1).length > 1) { ... layers.push(next) }
serviceBuildLayersFrom(lys) ==
    IF Len(Last(lys)) > 1
    THEN serviceBuildLayersFrom(Append(lys, serviceNextLayer(Last(lys))))
    ELSE lys

serviceBuildLayers(leaves) == serviceBuildLayersFrom(<<leaves>>)

\* defined for a non-empty record list (the empty list throws)
serviceGenerateMerkleTree(recs) ==
    LET leaves == generateLeaves(recs)
        lys    == serviceBuildLayers(leaves)
    IN [merkleRoot |-> rootOf(lys),
        proofs     |-> [i \in 1..Len(leaves) |-> serviceProof(lys, i - 1)]]

----------------------------------------------------------------------------
(* IoTData contract *)

Callers == {"admin", "device", "other"}

Roles == {"DEFAULT_ADMIN_ROLE", "ADMIN_ROLE", "DEVICE_ROLE", "ANALYST_ROLE"}

\* AccessControl.hasRole
hasRole(role, account) == account \in roles[role]

\* AccessControl.getRoleAdmin after the constructor's two _setRoleAdmin calls
getRoleAdmin(role) ==
    IF role \in {"DEVICE_ROLE", "ANALYST_ROLE"} THEN "ADMIN_ROLE" ELSE "DEFAULT_ADMIN_ROLE"

DeviceIds == {Str_d, Str_e}

\* keccak256(abi.encodePacked(_fromIndex, _toIndex, _merkleRoot, block.timestamp))
keccakBatch(fromIndex, toIndex, root, timestamp) ==
    <<2, fromIndex, toIndex>> \o root \o <<timestamp>>

\* OpenZeppelin MerkleProof: commutativeKeccak256, processProof, verify
ozCommutativeKeccak256(a, b) ==
    IF LexLess(a, b) THEN keccakPair(a, b) ELSE keccakPair(b, a)

RECURSIVE ozProcessProof(_, _)
ozProcessProof(proof, computedHash) ==
    IF proof = <<>> THEN computedHash
    ELSE ozProcessProof(Tail(proof), ozCommutativeKeccak256(computedHash, Head(proof)))

ozVerify(proof, root, leaf) == ozProcessProof(proof, leaf) = root

ChainCallInit ==
    /\ now = 1
    /\ roles = [role \in Roles |->
                   IF role \in {"DEFAULT_ADMIN_ROLE", "ADMIN_ROLE"} THEN {"admin"} ELSE {}]
    /\ recordCounter = 0
    /\ sensorRecords = <<>>
    /\ verifiedMerkleRoots = {}
    /\ dataBatches = <<>>
    /\ batchList = <<>>
    /\ deviceRecords = [d \in DeviceIds |-> <<>>]
    /\ lastCall = [call |-> "none"]
    /\ sensorData = <<>>
    /\ devices = <<>>
    /\ isLoading = FALSE
    /\ pageRoot = <<>>
    /\ pageProof = <<>>
    /\ mounted = FALSE
    /\ loads = [awaitCount |-> 0, awaitAll |-> 0]
    /\ lastLoad = [outcome |-> "none", recordCount |-> 0]

pageVars == <<sensorData, devices, isLoading, pageRoot, pageProof, mounted, loads, lastLoad>>

\* a new block: block.timestamp advances
Tick ==
    /\ now < MaxNow
    /\ now' = now + 1
    /\ UNCHANGED <<roles, recordCounter, sensorRecords, verifiedMerkleRoots, dataBatches,
                   batchList, deviceRecords, lastCall>>
    /\ UNCHANGED pageVars
    /\ UNCHANGED merkleVars
    /\ UNCHANGED aggVars
    /\ UNCHANGED appVars

\* storeData writing every reading to record id 0
StoreData_overwriteFirst(caller, deviceId, data, dataType, location) ==
    /\ recordCounter < MaxChainRecords
    /\ IF ~(hasRole("DEVICE_ROLE", caller) \/ hasRole("ADMIN_ROLE", caller))
       THEN UNCHANGED <<recordCounter, sensorRecords, deviceRecords>>
       ELSE LET dataHash == keccakRecord(deviceId, now, data, dataType, location)
            IN /\ recordCounter' = recordCounter + 1
               /\ sensorRecords' =
                      <<[deviceId |-> deviceId, timestamp |-> now, data |-> data,
                         dataType |-> dataType, location |-> location,
                         dataHash |-> dataHash]>>
               /\ deviceRecords' = [deviceRecords EXCEPT ![deviceId] = Append(@, 0)]
    /\ UNCHANGED <<now, roles, verifiedMerkleRoots, dataBatches, batchList, lastCall>>
    /\ UNCHANGED pageVars
    /\ UNCHANGED merkleVars
    /\ UNCHANGED aggVars
    /\ UNCHANGED appVars

StoreData(caller, deviceId, data, dataType, location) ==
    /\ recordCounter < MaxChainRecords
    /\ IF ~(hasRole("DEVICE_ROLE", caller) \/ hasRole("ADMIN_ROLE", caller))
       THEN UNCHANGED <<recordCounter, sensorRecords, deviceRecords>>
       ELSE LET dataHash == keccakRecord(deviceId, now, data, dataType, location)
                currentRecordId == recordCounter
            IN /\ recordCounter' = recordCounter + 1
               /\ sensorRecords' = Append(sensorRecords,
                      [deviceId |-> deviceId, timestamp |-> now, data |-> data,
                       dataType |-> dataType, location |-> location,
                       dataHash |-> dataHash])
               /\ deviceRecords' = [deviceRecords EXCEPT
                      ![deviceId] = Append(@, currentRecordId)]
    /\ UNCHANGED <<now, roles, verifiedMerkleRoots, dataBatches, batchList, lastCall>>
    /\ UNCHANGED pageVars
    /\ UNCHANGED merkleVars
    /\ UNCHANGED aggVars
    /\ UNCHANGED appVars

\* createBatch without its third require
CreateBatch_noUpperCheck(caller, fromIndex, toIndex, root, description) ==
    /\ Len(batchList) < MaxBatches
    /\ IF ~hasRole("ADMIN_ROLE", caller) \/ ~(toIndex >= fromIndex)
       THEN UNCHANGED <<dataBatches, batchList, verifiedMerkleRoots>>
       ELSE LET batchId == keccakBatch(fromIndex, toIndex, root, now)
                batch   == [merkleRoot |-> root, fromIndex |-> fromIndex,
                            toIndex |-> toIndex, timestamp |-> now,
                            description |-> description]
            IN /\ dataBatches' = [id \in (DOMAIN dataBatches) \cup {batchId} |->
                                     IF id = batchId THEN batch ELSE dataBatches[id]]
               /\ batchList' = Append(batchList, batchId)
               /\ verifiedMerkleRoots' = verifiedMerkleRoots \cup {root}
    /\ UNCHANGED <<now, roles, recordCounter, sensorRecords, deviceRecords, lastCall>>
    /\ UNCHANGED pageVars
    /\ UNCHANGED merkleVars
    /\ UNCHANGED aggVars
    /\ UNCHANGED appVars

CreateBatch(caller, fromIndex, toIndex, root, description) ==
    /\ Len(batchList) < MaxBatches
    /\ IF ~hasRole("ADMIN_ROLE", caller) \/ ~(toIndex >= fromIndex)
          \/ ~(toIndex < recordCounter)
       THEN UNCHANGED <<dataBatches, batchList, verifiedMerkleRoots>>
       ELSE LET batchId == keccakBatch(fromIndex, toIndex, root, now)
                batch   == [merkleRoot |-> root, fromIndex |-> fromIndex,
                            toIndex |-> toIndex, timestamp |-> now,
                            description |-> description]
            IN /\ dataBatches' = [id \in (DOMAIN dataBatches) \cup {batchId} |->
                                     IF id = batchId THEN batch ELSE dataBatches[id]]
               /\ batchList' = Append(batchList, batchId)
               /\ verifiedMerkleRoots' = verifiedMerkleRoots \cup {root}
    /\ UNCHANGED <<now, roles, recordCounter, sensorRecords, deviceRecords, lastCall>>
    /\ UNCHANGED pageVars
    /\ UNCHANGED merkleVars
    /\ UNCHANGED aggVars
    /\ UNCHANGED appVars

\* verifyRecord without its first require
VerifyRecord_noRootCheck(recordId, root, proof) ==
    /\ lastCall' =
         [call |-> "verifyRecord", root |-> root,
          result |->
            IF ~(recordId < recordCounter) THEN "Record doesn't exist"
            ELSE LET leaf == sensorRecords[recordId + 1].dataHash
                 IN IF ozVerify(proof, root, leaf) THEN "true" ELSE "false"]
    /\ UNCHANGED <<now, roles, recordCounter, sensorRecords, verifiedMerkleRoots,
                   dataBatches, batchList, deviceRecords>>
    /\ UNCHANGED pageVars
    /\ UNCHANGED merkleVars
    /\ UNCHANGED aggVars
    /\ UNCHANGED appVars

\* view call; the revert message or the returned boolean is kept in lastCall
VerifyRecord(recordId, root, proof) ==
    /\ lastCall' =
         [call |-> "verifyRecord", root |-> root,
          result |->
            IF ~(root \in verifiedMerkleRoots) THEN "Unknown Merkle root"
            ELSE IF ~(recordId < recordCounter) THEN "Record doesn't exist"
            ELSE LET leaf == sensorRecords[recordId + 1].dataHash
                 IN IF ozVerify(proof, root, leaf) THEN "true" ELSE "false"]
    /\ UNCHANGED <<now, roles, recordCounter, sensorRecords, verifiedMerkleRoots,
                   dataBatches, batchList, deviceRecords>>
    /\ UNCHANGED pageVars
    /\ UNCHANGED merkleVars
    /\ UNCHANGED aggVars
    /\ UNCHANGED appVars

contractData == <<now, recordCounter, sensorRecords, verifiedMerkleRoots, dataBatches,
                  batchList, deviceRecords, lastCall>>

\* AccessControl._grantRole / _revokeRole
grantedTo(role, account) == [roles EXCEPT ![role] = @ \cup {account}]

revokedFrom(role, account) == [roles EXCEPT ![role] = @ \ {account}]

\* AccessControl.grantRole: onlyRole(getRoleAdmin(role))
GrantRole(caller, role, account) ==
    /\ roles' = IF hasRole(getRoleAdmin(role), caller)
                THEN grantedTo(role, account) ELSE roles
    /\ UNCHANGED contractData
    /\ UNCHANGED pageVars
    /\ UNCHANGED merkleVars
    /\ UNCHANGED aggVars
    /\ UNCHANGED appVars

\* require(hasRole(ADMIN_ROLE, msg.sender)); grantRole(DEVICE_ROLE, account)
GrantDeviceRole(caller, account) ==
    IF hasRole("ADMIN_ROLE", caller)
    THEN GrantRole(caller, "DEVICE_ROLE", account)
    ELSE UNCHANGED vars

\* require(hasRole(ADMIN_ROLE, msg.sender)); grantRole(ANALYST_ROLE, account)
GrantAnalystRole(caller, account) ==
    IF hasRole("ADMIN_ROLE", caller)
    THEN GrantRole(caller, "ANALYST_ROLE", account)
    ELSE UNCHANGED vars

\* require(hasRole(ADMIN_ROLE, msg.sender)); super.revokeRole(role, account),
\* which is onlyRole(getRoleAdmin(role))
RevokeRole(caller, role, account) ==
    /\ roles' = IF hasRole("ADMIN_ROLE", caller) /\ hasRole(getRoleAdmin(role), caller)
                THEN revokedFrom(role, account) ELSE roles
    /\ UNCHANGED contractData
    /\ UNCHANGED pageVars
    /\ UNCHANGED merkleVars
    /\ UNCHANGED aggVars
    /\ UNCHANGED appVars

\* AccessControl.renounceRole: the confirmation must be the caller
RenounceRole(caller, role, callerConfirmation) ==
    /\ roles' = IF callerConfirmation = caller
                THEN revokedFrom(role, callerConfirmation) ELSE roles
    /\ UNCHANGED contractData
    /\ UNCHANGED pageVars
    /\ UNCHANGED merkleVars
    /\ UNCHANGED aggVars
    /\ UNCHANGED appVars

----------------------------------------------------------------------------
(* blockchainStore: connection and getData *)

MaxConnects == 1

\* the store's State; provider, signer, account, chainId, network, roles and
\* error are left out
initial == [connected |-> FALSE, loading |-> FALSE, contract |-> "null"]

\* connectWallet up to its first await; without window.ethereum it throws at
\* once and its catch block clears loading
ConnectWallet(ethereum) ==
    /\ connects < MaxConnects
    /\ IF ethereum
       THEN /\ bstate' = [bstate EXCEPT !.loading = TRUE]
            /\ connects' = connects + 1
       ELSE /\ bstate' = [bstate EXCEPT !.loading = FALSE]
            /\ UNCHANGED connects
    /\ UNCHANGED writes
    /\ UNCHANGED merkleVars
    /\ UNCHANGED chainVars
    /\ UNCHANGED aggVars
    /\ UNCHANGED <<syncVars, nftVars, statVars>>

\* the wallet answered, the network is a known one, the signer was obtained
ConnectResolves ==
    /\ connects > 0
    /\ connects' = connects - 1
    /\ bstate' = [bstate EXCEPT !.connected = TRUE, !.loading = FALSE,
                                !.contract = "contract"]
    /\ UNCHANGED writes
    /\ UNCHANGED merkleVars
    /\ UNCHANGED chainVars
    /\ UNCHANGED aggVars
    /\ UNCHANGED <<syncVars, nftVars, statVars>>

\* a request was refused or the network is not in NETWORKS: the catch block
ConnectRejects ==
    /\ connects > 0
    /\ connects' = connects - 1
    /\ bstate' = [bstate EXCEPT !.loading = FALSE]
    /\ UNCHANGED writes
    /\ UNCHANGED merkleVars
    /\ UNCHANGED chainVars
    /\ UNCHANGED aggVars
    /\ UNCHANGED <<syncVars, nftVars, statVars>>

\* disconnectWallet: reset() is set(initial)
DisconnectWallet ==
    /\ bstate' = initial
    /\ UNCHANGED <<writes, connects>>
    /\ UNCHANGED merkleVars
    /\ UNCHANGED chainVars
    /\ UNCHANGED aggVars
    /\ UNCHANGED <<syncVars, nftVars, statVars>>

\* new Date(Number(res[1]) * 1e3).toLocaleString(): a text that depends on the
\* browser's locale and time zone; it is kept as the instant it was written from
toLocaleString(seconds) == [localeStringOf |-> seconds * 1000]

\* what "await contract.getData(id)" gives when the node answers, and the
\* object getData makes of it (parsedData is left out); the contract's getData
\* reverts for an unused id
getData(id) ==
    IF ~(id < recordCounter) THEN [threw |-> "Record does not exist"]
    ELSE LET res == sensorRecords[id + 1]
         IN [threw |-> "", id |-> id, deviceId |-> res.deviceId,
             timestamp |-> toLocaleString(res.timestamp), sensorData |-> res.data,
             dataType |-> res.dataType, location |-> res.location]

\* a getData call of the store is awaiting the node
getDataPending == lastCall.call = "getData" /\ lastCall.pc = "await"

\* a page calls blockchainStore.getData(id): without a contract in the
\* store's state it throws at once, with one the request goes to the node.
\* One call is followed at a time.
GetData(id) ==
    /\ ~getDataPending
    /\ lastCall' = IF bstate.contract = "null"
                   THEN [call |-> "getData", id |-> id, pc |-> "settled",
                         result |-> [threw |-> "Not connected"]]
                   ELSE [call |-> "getData", id |-> id, pc |-> "await",
                         result |-> [threw |-> ""]]
    /\ UNCHANGED <<now, roles, recordCounter, sensorRecords, verifiedMerkleRoots,
                   dataBatches, batchList, deviceRecords>>
    /\ UNCHANGED pageVars
    /\ UNCHANGED merkleVars
    /\ UNCHANGED aggVars
    /\ UNCHANGED appVars

\* the node answers the call: the record as the chain holds it by then, or
\* the revert; the call resolves whatever the store's state has become
GetDataResolves ==
    /\ getDataPending
    /\ lastCall' = [lastCall EXCEPT !.pc = "settled", !.result = getData(lastCall.id)]
    /\ UNCHANGED <<now, roles, recordCounter, sensorRecords, verifiedMerkleRoots,
                   dataBatches, batchList, deviceRecords>>
    /\ UNCHANGED pageVars
    /\ UNCHANGED merkleVars
    /\ UNCHANGED aggVars
    /\ UNCHANGED appVars

\* the node does not answer: the promise of the call is rejected
GetDataRejects ==
    /\ getDataPending
    /\ lastCall' = [lastCall EXCEPT !.pc = "settled", !.result = [threw |-> "rejected"]]
    /\ UNCHANGED <<now, roles, recordCounter, sensorRecords, verifiedMerkleRoots,
                   dataBatches, batchList, deviceRecords>>
    /\ UNCHANGED pageVars
    /\ UNCHANGED merkleVars
    /\ UNCHANGED aggVars
    /\ UNCHANGED appVars

----------------------------------------------------------------------------
(* The certificate page: loadDeviceData and generateMerkleProof *)

MaxLoads == 2

FetchLimit == 50

Min(a, b) == IF a < b THEN a ELSE b

\* record ids recordCount-1 down to recordCount-fetchCount, in the loop's order
fetchedIds(recordCount) ==
    [k \in 1..Min(recordCount, FetchLimit) |-> recordCount - k]

contractVars == <<now, roles, recordCounter, sensorRecords, verifiedMerkleRoots,
                  dataBatches, batchList, deviceRecords, lastCall>>

\* loadDeviceData up to "await blockchainStore.getRecordCount()"; n calls are
\* started in the same run.  Line 35 throws into the catch block when the
\* store is not connected.
loadDeviceData(n) ==
    IF bstate.connected
    THEN /\ isLoading' = TRUE
         /\ loads' = [loads EXCEPT !.awaitCount = @ + n]
         /\ UNCHANGED lastLoad
    ELSE /\ isLoading' = FALSE
         /\ lastLoad' = [outcome |-> "Not connected to blockchain", recordCount |-> 0]
         /\ UNCHANGED loads

\* the component is created and mounted while the store is in its present
\* state: the reactive statement of line 109 runs first, then onMount
Mount ==
    /\ ~mounted
    /\ mounted' = TRUE
    /\ IF bstate.connected
       THEN loadDeviceData(2)
       ELSE UNCHANGED <<isLoading, loads, lastLoad>>
    /\ UNCHANGED <<sensorData, devices, pageRoot, pageProof>>
    /\ UNCHANGED contractVars
    /\ UNCHANGED merkleVars
    /\ UNCHANGED aggVars
    /\ UNCHANGED appVars

\* the reactive statement of line 109 or the Refresh button calls loadDeviceData
Reload ==
    /\ mounted
    /\ bstate.connected /\ ~isLoading
    /\ loads.awaitCount + loads.awaitAll < MaxLoads
    /\ loadDeviceData(1)
    /\ UNCHANGED <<sensorData, devices, pageRoot, pageProof, mounted>>
    /\ UNCHANGED contractVars
    /\ UNCHANGED merkleVars
    /\ UNCHANGED aggVars
    /\ UNCHANGED appVars

\* getRecordCount resolved.  With records on chain the loop's first
\* blockchainStore.getIoTData(i) is a call of undefined, the store has no such
\* function: the TypeError goes to the catch block.  With none, dataPromises
\* is empty and the call awaits Promise.all([]).
LoadCountResolves ==
    /\ loads.awaitCount > 0
    /\ LET recordCount == recordCounter
           fetchCount  == Min(recordCount, FetchLimit)
       IN IF fetchCount > 0
          THEN /\ loads' = [loads EXCEPT !.awaitCount = @ - 1]
               /\ isLoading' = FALSE
               /\ lastLoad' = [outcome |-> "TypeError", recordCount |-> recordCount]
          ELSE /\ loads' = [loads EXCEPT !.awaitCount = @ - 1, !.awaitAll = @ + 1]
               /\ UNCHANGED <<isLoading, lastLoad>>
    /\ UNCHANGED <<sensorData, devices, pageRoot, pageProof, mounted>>
    /\ UNCHANGED contractVars
    /\ UNCHANGED merkleVars
    /\ UNCHANGED aggVars
    /\ UNCHANGED appVars

\* getRecordCount rejected (the node did not answer): catch, finally
LoadCountRejects ==
    /\ loads.awaitCount > 0
    /\ loads' = [loads EXCEPT !.awaitCount = @ - 1]
    /\ isLoading' = FALSE
    /\ lastLoad' = [outcome |-> "rejected", recordCount |-> 0]
    /\ UNCHANGED <<sensorData, devices, pageRoot, pageProof, mounted>>
    /\ UNCHANGED contractVars
    /\ UNCHANGED merkleVars
    /\ UNCHANGED aggVars
    /\ UNCHANGED appVars

\* Promise.all([]) resolved: results is empty, and so are devices and sensorData
LoadAllResolves ==
    /\ loads.awaitAll > 0
    /\ loads' = [loads EXCEPT !.awaitAll = @ - 1]
    /\ devices' = <<>>
    /\ sensorData' = <<>>
    /\ isLoading' = FALSE
    /\ lastLoad' = [outcome |-> "loaded", recordCount |-> 0]
    /\ UNCHANGED <<pageRoot, pageProof, mounted>>
    /\ UNCHANGED contractVars
    /\ UNCHANGED merkleVars
    /\ UNCHANGED aggVars
    /\ UNCHANGED appVars

RECURSIVE filterIdx(_, _, _)
\* indexes k >= from of data whose deviceId is the selected one, ascending
filterIdx(data, deviceId, from) ==
    IF from > Len(data) THEN <<>>
    ELSE (IF data[from].deviceId = deviceId THEN <<from>> ELSE <<>>)
         \o filterIdx(data, deviceId, from + 1)

\* generateMerkleProof with the page holding data and the select showing
\* deviceId ("" is <<>>): the page's merkleRoot and merkleProof after the call
generateMerkleProof(deviceId, data) ==
    LET idx  == filterIdx(data, deviceId, 1)
        recs == [k \in 1..Len(idx) |-> data[idx[k]]]
    IN IF deviceId = <<>> \/ Len(data) = 0 \/ Len(recs) = 0
       THEN [merkleRoot |-> pageRoot, merkleProof |-> pageProof]
       ELSE LET tree == serviceGenerateMerkleTree(recs)
            IN [merkleRoot |-> tree.merkleRoot, merkleProof |-> tree.proofs[Len(recs)]]

\* the select's value becomes deviceId, one of its options: the reactive
\* statements of lines 98-102 run
SelectDevice(deviceId) ==
    /\ mounted
    /\ deviceId \in {<<>>} \cup {devices[k].id : k \in 1..Len(devices)}
    /\ IF deviceId = <<>>
       THEN pageRoot' = <<>> /\ pageProof' = <<>>
       ELSE LET made == generateMerkleProof(deviceId, sensorData)
            IN pageRoot' = made.merkleRoot /\ pageProof' = made.merkleProof
    /\ UNCHANGED <<sensorData, devices, isLoading, mounted, loads, lastLoad>>
    /\ UNCHANGED contractVars
    /\ UNCHANGED merkleVars
    /\ UNCHANGED aggVars
    /\ UNCHANGED appVars

MerkleIdle ==
    /\ impl = "service"
    /\ records = <<>>
    /\ pc = "idle"
    /\ layers = <<>>
    /\ merkleRoot = <<>>
    /\ proofs = <<>>
    /\ vindex = 0
    /\ vleaf = <<>>
    /\ vproof = <<>>
    /\ vroot = <<>>
    /\ vresult = FALSE
    /\ tamper = "none"

\* no aggregation call is made
\* no syncData call was made; the caller set of the sync store is Syncers
Syncers == {1, 2}

\* a syncData call: where it stands, what it returned, the number of
\* getUnsyncedSensorData calls it made, and its locals (unsyncedData, the caught
\* error's message, the index of the device group, the index into
\* formattedData, formattedData, merkleRoot, syncedIds, and the arguments of the
\* last call of the local blockchainStore)
SyncerIdle ==
    [pc |-> "idle", result |-> "none", reads |-> 0, data |-> <<>>, message |-> "",
     group |-> 0, at |-> 0, formattedData |-> <<>>, merkleRoot |-> <<>>,
     syncedIds |-> <<>>, call |-> <<>>]

MaxStores == 2

MaxReads == 2

StoreCalls == 1..MaxStores

ReadCalls == 1..MaxReads

StoreCallIdle ==
    [pc |-> "idle", readings |-> <<>>, settles |-> FALSE, message |-> "", after |-> {}]

\* who awaits a getUnsyncedSensorData call: code outside the sync store,
\* updatePendingCount called on its own, syncData (of caller p), or the
\* updatePendingCount that syncData awaits
Awaiter(kind, p) == [kind |-> kind, p |-> p]

ReadCallIdle ==
    [pc |-> "idle", for |-> Awaiter("", 0), result |-> <<>>, message |-> "",
     after |-> {}]

SyncIdle ==
    /\ db = "absent"
    /\ offline = <<>>
    /\ storeCalls = [c \in StoreCalls |-> StoreCallIdle]
    /\ readCalls = [c \in ReadCalls |-> ReadCallIdle]
    /\ opening = <<>>
    /\ created = FALSE
    /\ connected = FALSE
    /\ isSyncing = FALSE
    /\ syncError = "null"
    /\ pendingCount = 0
    /\ lastSyncTime = 0
    /\ autoSyncEnabled = FALSE
    /\ localStorage = "null"
    /\ sync = [p \in Syncers |-> SyncerIdle]
    /\ marked = {}
    /\ syncCalls = 0

NftAddresses == {"certifier", "holder", "zero"}

NftDevices == {1, 2}

NftRoles == {"DEFAULT_ADMIN_ROLE", "MINTER_ROLE", "CERTIFIER_ROLE"}

\* NFTData after its constructor: the deployer holds every role, no token yet
NftIdle ==
    /\ nftRoles = [role \in NftRoles |-> {"certifier"}]
    /\ tokenApprovals = <<>>
    /\ operatorApprovals = {}
    /\ tokenIds = 0
    /\ certificates = <<>>
    /\ deviceCertificates = [d \in NftDevices |-> <<>>]
    /\ dataCertified = {}
    /\ owners = <<>>
    /\ tokenURIs = <<>>
    /\ nftCall = [call |-> "none"]

MaxWrites == 2

\* the storeData / createBatch calls made on the store
WriteCalls == 1..MaxWrites

\* blockchainStore's initial State, no wrapper call made
StoreIdle ==
    /\ bstate = initial
    /\ writes = [c \in WriteCalls |-> [pc |-> "idle", kind |-> "none", result |-> "none"]]
    /\ connects = 0

\* calculateStatistics has not been called on its own
StatIdle ==
    /\ numericValues = <<>>
    /\ statistics = <<>>

AppIdle == SyncIdle /\ NftIdle /\ StoreIdle /\ StatIdle

AggIdle ==
    /\ readings = <<>>
    /\ argument = <<>>
    /\ historicalReadings = <<>>
    /\ aggregates = <<>>
    /\ anomalies = <<>>
    /\ sensorBatch = [merkleRoot |-> <<>>, proofs |-> <<>>]
    /\ aggPc = "idle"
    /\ sample = [threw |-> FALSE, some |-> FALSE, n |-> 0]
    /\ calls = 0

CertInit == MerkleIdle /\ ChainCallInit /\ AppIdle /\ AggIdle

\* the certificate page over the store and the contract: records are stored on
\* chain, the wallet connects and disconnects, the page mounts and loads
CertNext ==
    \/ Tick
    \/ \E caller \in Callers, d \in DeviceIds :
            StoreData(caller, d, Str_ab, Str_c, Str_l)
    \/ \E caller \in Callers : GrantDeviceRole(caller, "device")
    \/ \E caller \in Callers : GrantAnalystRole(caller, "other")
    \/ \E ethereum \in BOOLEAN : ConnectWallet(ethereum)
    \/ ConnectResolves
    \/ ConnectRejects
    \/ DisconnectWallet
    \/ \E id \in 0..MaxChainRecords : GetData(id)
    \/ GetDataResolves
    \/ GetDataRejects
    \/ Mount
    \/ Reload
    \/ LoadCountResolves
    \/ LoadCountRejects
    \/ LoadAllResolves
    \/ SelectDevice(<<>>)

CertSpec == CertInit /\ [][CertNext]_vars

----------------------------------------------------------------------------
(* The contract alone: any caller, any call order *)

\* merkle roots offered to verifyRecord: the one-record trees of a reading
\* stored by either device in the first block; the admin registers the first
ContractRoots == {keccakRecord(d, 1, Str_ab, Str_c, Str_l) : d \in DeviceIds}

BatchRoots == {keccakRecord(Str_d, 1, Str_ab, Str_c, Str_l)}

Descriptions == {1, 2}

ContractInit == MerkleIdle /\ ChainCallInit /\ AppIdle /\ AggIdle

ContractNext ==
    \/ Tick
    \/ \E caller \in Callers : StoreData(caller, Str_d, Str_ab, Str_c, Str_l)
    \/ \E caller \in Callers, f \in {0, MaxChainRecords}, t \in 0..MaxChainRecords,
          root \in BatchRoots, description \in Descriptions :
            CreateBatch(caller, f, t, root, description)
    \/ \E caller \in Callers : GrantDeviceRole(caller, "device")
    \/ \E caller \in Callers : GrantRole(caller, "ADMIN_ROLE", "admin")
    \/ \E caller \in Callers, role \in {"ADMIN_ROLE", "DEVICE_ROLE"},
          account \in {"admin", "device"} : RevokeRole(caller, role, account)
    \/ \E caller \in Callers, callerConfirmation \in {"admin", "device"} :
            RenounceRole(caller, "ADMIN_ROLE", callerConfirmation)

ContractSpec == ContractInit /\ [][ContractNext]_vars

\* a device stores a reading; the second reading stored may split the same
\* characters between data and dataType in the other way
StoreSplit(caller, p) ==
    /\ recordCounter = 1 \/ p = <<Str_ab, Str_c>>
    /\ StoreData(caller, Str_d, p[1], p[2], Str_l)

\* the contract with verifyRecord calls: batches over records 0..t, one description
VerifyNext ==
    \/ Tick
    \/ \E caller \in Callers, p \in SplitPairs : StoreSplit(caller, p)
    \/ \E caller \in Callers, t \in 0..MaxChainRecords, root \in BatchRoots :
            CreateBatch(caller, 0, t, root, 1)
    \/ \E id \in 0..MaxChainRecords, root \in ContractRoots :
            VerifyRecord(id, root, <<>>)
    \/ \E caller \in Callers : GrantDeviceRole(caller, "device")
    \/ \E caller \in Callers : GrantRole(caller, "ADMIN_ROLE", "admin")
    \/ \E caller \in Callers, role \in {"ADMIN_ROLE", "DEVICE_ROLE"},
          account \in {"admin", "device"} : RevokeRole(caller, role, account)
    \/ \E caller \in Callers, callerConfirmation \in {"admin", "device"} :
            RenounceRole(caller, "ADMIN_ROLE", callerConfirmation)

VerifySpec == ContractInit /\ [][VerifyNext]_vars

----------------------------------------------------------------------------
(* A client over the contract: it holds readings, stores each with storeData,
   builds their tree off-chain, has the root registered with createBatch and
   asks verifyRecord about a record with the proof of its reading.  The steps
   on the chain are the contract's functions as its callers reach them, each a
   transaction mined or a view call answered; the pages' blockchainStore, with
   its wallet connection and its loading flag, takes no part and stays as it
   is after construction. *)

\* the readings the client holds, in the order it stores them: the reading
\* records[k] goes to record id k - 1.  Their tree is built by
\* services/merkleTree, the builder of the certificate page and of
\* prepareSensorBatch.
CrossInit ==
    /\ MerkleInit
    /\ impl = "service"
    /\ Len(records) \in 1..MaxChainRecords
    /\ ChainCallInit /\ AppIdle /\ AggIdle

\* a storeData transaction of caller that carries the client's next reading
\* is mined: the contract's storeData takes the device, the data, the type and
\* the location, and no timestamp
StoreReading(caller) ==
    /\ recordCounter < Len(records)
    /\ StoreData(caller, records[recordCounter + 1].deviceId,
                 records[recordCounter + 1].data, records[recordCounter + 1].dataType,
                 records[recordCounter + 1].location)

\* a createBatch transaction of caller is mined that registers the root built
\* over the readings for the records 0..Len(records)-1
RegisterRoot(caller) ==
    /\ pc = "done"
    /\ CreateBatch(caller, 0, Len(records) - 1, merkleRoot, 1)

\* the contract's view function verifyRecord(id, root, proof) is called with
\* the root and the proof built off-chain for the reading of record id
VerifyReading(id) ==
    /\ pc = "done"
    /\ id < Len(records)
    /\ VerifyRecord(id, merkleRoot, proofs[id + 1])

CrossNext ==
    \/ Tick
    \/ \E caller \in Callers : StoreReading(caller)
    \/ Start
    \/ LoopStep
    \/ Finish
    \/ \E caller \in Callers : RegisterRoot(caller)
    \/ \E id \in 0..(MaxChainRecords - 1) : VerifyReading(id)

CrossSpec == CrossInit /\ [][CrossNext]_vars

Init == MerkleInit /\ ChainCallInit /\ AppIdle /\ AggIdle

Next ==
    \/ Start
    \/ LoopStep
    \/ Finish
    \/ \E i \in 0..(Len(records) - 1) : Verify(i)
    \/ \E d \in TamperDigests : TamperLeaf(d)
    \/ \E k \in 1..MaxRecords, d \in TamperDigests : TamperProof(k, d)
    \/ \E d \in TamperDigests : TamperRoot(d)

Spec == Init /\ [][Next]_vars

----------------------------------------------------------------------------
(* A const of the code is written
       CHOOSE out \in {(block) : name \in {expression}} : TRUE
   the expression is evaluated once and the block uses its value under the
   name *)

----------------------------------------------------------------------------
(* Strings are sequences of character codes *)

\* the characters the code and the JSON texts single out
Chars == [lbrace |-> 123, rbrace |-> 125, lbracket |-> 91, rbracket |-> 93, quote |-> 34,
          colon |-> 58, comma |-> 44, dash |-> 45, plus |-> 43, dot |-> 46,
          backslash |-> 92, zero |-> 48, nine |-> 57]

\* "value"
Str_value == <<118, 97, 108, 117, 101>>

\* "temperature"
Str_temperature == <<116, 101, 109, 112, 101, 114, 97, 116, 117, 114, 101>>

\* "humidity"
Str_humidity == <<104, 117, 109, 105, 100, 105, 116, 121>>

\* "soil-moisture"
Str_soil_moisture == <<115, 111, 105, 108, 45, 109, 111, 105, 115, 116, 117, 114, 101>>

\* "light"
Str_light == <<108, 105, 103, 104, 116>>

\* "co2"
Str_co2 == <<99, 111, 50>>

\* "null"
Str_null == <<110, 117, 108, 108>>

\* "bad"
Str_bad == <<98, 97, 100>>

\* "device"
Str_device == <<100, 101, 118, 105, 99, 101>>

\* "device-001"
Str_device_001 == <<100, 101, 118, 105, 99, 101, 45, 48, 48, 49>>

\* "001-temperature"
Str_001_temperature == <<48, 48, 49, 45, 116, 101, 109, 112, 101, 114, 97, 116, 117, 114, 101>>

\* "field"
Str_field == <<102, 105, 101, 108, 100>>

\* "b"
Str_b == <<98>>

\* "2"
Str_2 == <<50>>

\* "x"
Str_x == <<120>>
----------------------------------------------------------------------------
(* Characters and numerals *)

IsDigit(c) == c >= Chars.zero /\ c <= Chars.nine

\* 0-9, A-F, a-f
IsHexDigit(c) == IsDigit(c) \/ (c >= 65 /\ c <= 70) \/ (c >= 97 /\ c <= 102)

hexDigitValue(c) == IF IsDigit(c) THEN c - 48 ELSE IF c >= 97 THEN c - 87 ELSE c - 55

RECURSIVE decimalDigits(_)
\* the decimal numeral of an integer
decimalDigits(n) ==
    IF n < 0 THEN <<Chars.dash>> \o decimalDigits(-n)
    ELSE IF n < 10 THEN <<Chars.zero + n>>
    ELSE Append(decimalDigits(n \div 10), Chars.zero + (n % 10))

RECURSIVE decimalValue(_, _)
\* the number a short run of digits stands for
decimalValue(ds, acc) ==
    IF ds = <<>> THEN acc
    ELSE decimalValue(Tail(ds), acc * 10 + (Head(ds) - Chars.zero))

\* the digits of an exponent as a number, 9999999 standing for all above
exponentValue(ds) ==
    IF \A i \in 1..Len(ds) : ds[i] = Chars.zero THEN 0
    ELSE (CHOOSE out \in {(
             IF Len(ds) - first + 1 > 7 THEN 9999999
             ELSE decimalValue(SubSeq(ds, first, Len(ds)), 0)) :
             first \in {CHOOSE i \in 1..Len(ds) :
                 ds[i] # Chars.zero /\ \A j \in 1..(i - 1) : ds[j] = Chars.zero}} : TRUE)

\* first position at or after pos that holds no digit
digitsEnd(text, pos) ==
    IF \E i \in pos..Len(text) : ~IsDigit(text[i])
    THEN CHOOSE i \in pos..Len(text) :
             ~IsDigit(text[i]) /\ \A j \in pos..(i - 1) : IsDigit(text[j])
    ELSE Len(text) + 1
----------------------------------------------------------------------------
(* Natural numbers of any size, for the arithmetic of JavaScript numbers: the
   limbs in base 2^13, least significant first, no zero limb at the top *)

Base == 2 ^ 13

\* the bits of a limb
LimbBits == CHOOSE n \in 1..30 : 2 ^ n = Base

Max(a, b) == IF a > b THEN a ELSE b

\* the limb of 1-based position i, 0 outside the number
limb(a, i) == IF i >= 1 /\ i <= Len(a) THEN a[i] ELSE 0

\* without the zero limbs at the top
bigTrim(big) ==
    (CHOOSE out \in {(
        IF a = <<>> \/ a[Len(a)] # 0 THEN a
        ELSE IF \E i \in 1..Len(a) : a[i] # 0
        THEN SubSeq(a, 1, CHOOSE i \in 1..Len(a) :
                             a[i] # 0 /\ \A j \in (i + 1)..Len(a) : a[j] = 0)
        ELSE <<>>) :
        a \in {big}} : TRUE)

\* a natural number below 2^31
bigOf(n) ==
    bigTrim(<<n % Base, (n \div Base) % Base, n \div (Base * Base)>>)

bigLess(a, b) ==
    \/ Len(a) < Len(b)
    \/ /\ Len(a) = Len(b)
       /\ \E i \in 1..Len(a) : a[i] < b[i] /\ \A j \in (i + 1)..Len(a) : a[j] = b[j]

\* the carry that position i of a + b takes from the positions below: the
\* position below overflows, or it is full and takes a carry itself
carryInto(a, b, i) ==
    IF i <= 1 \/ limb(a, i - 1) + limb(b, i - 1) < Base - 1 THEN 0
    ELSE IF limb(a, i - 1) + limb(b, i - 1) >= Base THEN 1
    ELSE IF \E j \in 1..(i - 2) :
               /\ limb(a, j) + limb(b, j) >= Base
               /\ \A k \in (j + 1)..(i - 2) : limb(a, k) + limb(b, k) = Base - 1
    THEN 1 ELSE 0

\* a + b
bigAdd(a, b) ==
    (CHOOSE out \in {(
        bigTrim([i \in 1..(Max(Len(p[1]), Len(p[2])) + 1) |->
                    (limb(p[1], i) + limb(p[2], i) + carryInto(p[1], p[2], i)) % Base])) :
        p \in {<<a, b>>}} : TRUE)

\* the borrow that position i of a - b makes at the positions below
borrowInto(a, b, i) ==
    IF i <= 1 \/ limb(a, i - 1) > limb(b, i - 1) THEN 0
    ELSE IF limb(a, i - 1) < limb(b, i - 1) THEN 1
    ELSE IF \E j \in 1..(i - 2) :
               /\ limb(a, j) < limb(b, j)
               /\ \A k \in (j + 1)..(i - 2) : limb(a, k) = limb(b, k)
    THEN 1 ELSE 0

\* a - b for a >= b
bigSub(a, b) ==
    (CHOOSE out \in {(
        bigTrim([i \in 1..Len(p[1]) |->
                    (p[1][i] - limb(p[2], i) - borrowInto(p[1], p[2], i)) % Base])) :
        p \in {<<a, b>>}} : TRUE)

\* a * d for a natural d below 2^13
bigMulSmall(a, d) ==
    (CHOOSE out \in {(
        bigAdd([i \in 1..Len(p) |-> p[i] % Base],
               <<0>> \o [i \in 1..Len(p) |-> p[i] \div Base])) :
        p \in {[i \in 1..Len(a) |-> a[i] * d]}} : TRUE)

\* a * b for a and b of at most five limbs (below 2^65)
bigMul(a, b) ==
    (CHOOSE out \in {(
        bigAdd(bigAdd([k \in 1..10 |-> p[k] % Base],
                      <<0>> \o [k \in 1..10 |-> (p[k] \div Base) % Base]),
               <<0, 0>> \o [k \in 1..10 |-> p[k] \div (Base * Base)])) :
        p \in {[k \in 1..10 |->
            limb(a, 1) * limb(b, k) + limb(a, 2) * limb(b, k - 1)
            + limb(a, 3) * limb(b, k - 2) + limb(a, 4) * limb(b, k - 3)
            + limb(a, 5) * limb(b, k - 4)]}} : TRUE)

\* a * 2^k
bigShl(a, k) ==
    (CHOOSE out \in {(
        IF p[1] = <<>> THEN <<>>
        ELSE bigTrim([i \in 1..(p[2] \div LimbBits) |-> 0]
                     \o [i \in 1..(Len(p[1]) + 1) |->
                            ((limb(p[1], i) * 2 ^ (p[2] % LimbBits)) % Base)
                            + ((limb(p[1], i - 1) * 2 ^ (p[2] % LimbBits)) \div Base)])) :
        p \in {<<a, k>>}} : TRUE)

\* floor(a / 2^k)
bigShr(a, k) ==
    (CHOOSE out \in {(
        IF p[2] \div LimbBits >= Len(p[1]) THEN <<>>
        ELSE bigTrim([i \in 1..(Len(p[1]) - (p[2] \div LimbBits)) |->
                (limb(p[1], i + (p[2] \div LimbBits)) \div 2 ^ (p[2] % LimbBits))
                + (limb(p[1], i + (p[2] \div LimbBits) + 1) % 2 ^ (p[2] % LimbBits))
                  * 2 ^ (LimbBits - (p[2] % LimbBits))])) :
        p \in {<<a, k>>}} : TRUE)

\* the number of bits of a limb x > 0
limbBits(x) == CHOOSE n \in 1..LimbBits : x < 2 ^ n /\ x >= 2 ^ (n - 1)

\* the number of bits of a: 0 for 0
bigBits(a) ==
    IF a = <<>> THEN 0 ELSE (Len(a) - 1) * LimbBits + limbBits(a[Len(a)])

\* bit k of a, bit 0 the lowest
bigBit(a, k) == (limb(a, (k \div LimbBits) + 1) \div (2 ^ (k % LimbBits))) % 2

\* whether a bit below bit k of a is set
bigLowBits(a, k) ==
    \/ \E i \in 1..Len(a) : i <= k \div LimbBits /\ a[i] # 0
    \/ limb(a, (k \div LimbBits) + 1) % (2 ^ (k % LimbBits)) # 0

\* the number of zero bits at the bottom of a > 0
bigTrailingZeros(a) ==
    (CHOOSE out \in {(
        (i - 1) * LimbBits
        + (CHOOSE t \in 0..(LimbBits - 1) : a[i] % (2 ^ (t + 1)) # 0 /\ a[i] % (2 ^ t) = 0)) :
        i \in {CHOOSE j \in 1..Len(a) : a[j] # 0 /\ \A k \in 1..(j - 1) : a[k] = 0}} : TRUE)

\* one limb of a quotient: floor(r / d) and the remainder, for r < d * 2^13
\* and a divisor d whose top limb is 2^12 or more; the quotient of the top
\* limbs is at most two too large
divideStep(r, d) ==
    (CHOOSE out \in {(
      (CHOOSE out \in {(
        IF ~bigLess(r, t) THEN [q |-> qhat, rem |-> bigSub(r, t)]
        ELSE (CHOOSE out \in {(
               IF ~bigLess(r, t1) THEN [q |-> qhat - 1, rem |-> bigSub(r, t1)]
               ELSE [q |-> qhat - 2, rem |-> bigSub(r, bigSub(t1, d))]) :
               t1 \in {bigSub(t, d)}} : TRUE)) :
        t \in {bigMulSmall(d, qhat)}} : TRUE)) :
      qhat \in {IF (limb(r, Len(d) + 1) * Base + limb(r, Len(d))) \div d[Len(d)] > Base - 1
      THEN Base - 1
      ELSE (limb(r, Len(d) + 1) * Base + limb(r, Len(d))) \div d[Len(d)]}} : TRUE)

RECURSIVE bigDivFrom(_, _, _, _)
\* long division limb by limb, from limb j of n down: s holds the remainder
\* and the quotient so far
bigDivFrom(n, d, j, s) ==
    IF j < 1 THEN s
    ELSE (CHOOSE out \in {( bigDivFrom(n, d, j - 1, next)) :
               next \in {(CHOOSE out \in {(
                   IF bigLess(r, d) THEN [rem |-> r, quot |-> <<0>> \o s.quot]
                   ELSE (CHOOSE out \in {(
                            [rem |-> step.rem, quot |-> <<step.q>> \o s.quot]) :
                            step \in {divideStep(r, d)}} : TRUE)) :
                   r \in {bigTrim(<<n[j]>> \o s.rem)}} : TRUE)}} : TRUE)

\* floor(n / d) and whether n mod d is not 0, for d > 0: both are shifted
\* until the top limb of d is 2^12 or more, and the division starts where the
\* remainder has one limb less than d
bigDivMod(n, d) ==
    (CHOOSE out \in {(
        IF Len(p[1]) < Len(p[2]) THEN [quot |-> <<>>, inexact |-> p[1] # <<>>]
        ELSE (CHOOSE out \in {( [quot |-> bigTrim(s.quot), inexact |-> s.rem # <<>>]) :
                   s \in {bigDivFrom(p[1], p[2], Len(p[1]) - Len(p[2]) + 1,
                              [rem |-> SubSeq(p[1], Len(p[1]) - Len(p[2]) + 2, Len(p[1])),
                               quot |-> <<>>])}} : TRUE)) :
        p \in {<<bigShl(n, LimbBits - limbBits(d[Len(d)])),
          bigShl(d, LimbBits - limbBits(d[Len(d)]))>>}} : TRUE)

RECURSIVE intSqrtFrom(_, _)
intSqrtFrom(h, r) ==
    (CHOOSE out \in {( IF next >= r THEN r ELSE intSqrtFrom(h, next)) :
          next \in {(r + (h \div r)) \div 2}} : TRUE)

\* floor(sqrt(h)) for 0 < h < 2^28
intSqrt(h) == intSqrtFrom(h, 16384)

RECURSIVE bigSqrtFrom(_, _)
\* Newton's iteration from an r that is not below the root
bigSqrtFrom(a, r) ==
    (CHOOSE out \in {( IF ~bigLess(next, r) THEN r ELSE bigSqrtFrom(a, next)) :
          next \in {bigShr(bigAdd(r, bigDivMod(a, r).quot), 1)}} : TRUE)

\* floor(sqrt(a)) for a of 109 or 110 bits: the first r is the root of the
\* top 27 or 28 bits, rounded up
bigSqrt(a) ==
    (CHOOSE out \in {(
        bigSqrtFrom(v, bigShl(bigOf(intSqrt(bigShr(v, 82)[1] + bigShr(v, 82)[2] * Base
                                             + limb(bigShr(v, 82), 3) * Base * Base) + 1),
                              41))) :
        v \in {a}} : TRUE)

RECURSIVE bigPow10From(_, _)
bigPow10From(k, acc) ==
    IF k = 0 THEN acc
    ELSE IF k >= 15
    THEN (CHOOSE out \in {( bigPow10From(k - 15, next)) :
               next \in {bigMulSmall(bigMulSmall(bigMulSmall(bigMulSmall(bigMulSmall(
                   acc, 1000), 1000), 1000), 1000), 1000)}} : TRUE)
    ELSE IF k >= 3
    THEN (CHOOSE out \in {( bigPow10From(k - 3, next)) : next \in {bigMulSmall(acc, 1000)}} : TRUE)
    ELSE (CHOOSE out \in {( bigPow10From(k - 1, next)) : next \in {bigMulSmall(acc, 10)}} : TRUE)

\* a * 10^k
bigTimesPow10(a, k) == bigPow10From(k, a)

RECURSIVE bigDigitsFrom(_, _, _, _)
\* the number written by the digits ds in the radix, from position i on
bigDigitsFrom(ds, radix, i, acc) ==
    IF i > Len(ds) THEN acc
    ELSE IF i + 2 <= Len(ds)
    THEN (CHOOSE out \in {( bigDigitsFrom(ds, radix, i + 3, next)) :
               next \in {bigAdd(bigMulSmall(bigMulSmall(bigMulSmall(acc, radix), radix), radix),
                      bigOf((hexDigitValue(ds[i]) * radix + hexDigitValue(ds[i + 1]))
                            * radix + hexDigitValue(ds[i + 2])))}} : TRUE)
    ELSE (CHOOSE out \in {( bigDigitsFrom(ds, radix, i + 1, next)) :
               next \in {bigAdd(bigMulSmall(acc, radix), bigOf(hexDigitValue(ds[i])))}} : TRUE)

bigOfDigits(ds, radix) == bigDigitsFrom(ds, radix, 1, <<>>)

----------------------------------------------------------------------------
(* JavaScript numbers: IEEE 754 binary64 values.  A finite number is
   (-1)^neg * m * 2^e with m odd, or m = 0 and e = 0 for the two zeros *)

NaN == [k |-> "nan", neg |-> FALSE, m |-> <<>>, e |-> 0]
Infinite(neg) == [k |-> "inf", neg |-> neg, m |-> <<>>, e |-> 0]
Zero(neg) == [k |-> "fin", neg |-> neg, m |-> <<>>, e |-> 0]

\* m * 2^e exactly, for m of at most 53 bits and e >= -1074: the number, or
\* the infinity when it is 2^1024 or more
exactNumber(neg, big, e) ==
    (CHOOSE out \in {(
        IF m = <<>> THEN Zero(neg)
        ELSE IF bigBits(m) + e > 1024 THEN Infinite(neg)
        ELSE (CHOOSE out \in {(
                 [k |-> "fin", neg |-> neg, m |-> bigShr(m, z), e |-> e + z]) :
                 z \in {bigTrailingZeros(m)}} : TRUE)) :
        m \in {big}} : TRUE)

\* the number nearest to m * 2^e, ties to the even significand: the 53 bits
\* from the top of m are kept, or the bits down to 2^-1074
roundBinary(neg, big, e) ==
    (CHOOSE out \in {(
        IF m = <<>> THEN Zero(neg)
        ELSE (CHOOSE out \in {(
               IF q <= e THEN exactNumber(neg, m, e)
               ELSE IF /\ bigBit(m, q - e - 1) = 1
                       /\ bigLowBits(m, q - e - 1) \/ bigBit(m, q - e) = 1
               THEN exactNumber(neg, bigAdd(bigShr(m, q - e), <<1>>), q)
               ELSE exactNumber(neg, bigShr(m, q - e), q)) :
               q \in {Max(e + bigBits(m) - 53, -1074)}} : TRUE)) :
        m \in {big}} : TRUE)

\* the number nearest to (n / d) * 2^e for n > 0 and d > 0: the quotient is
\* taken to 55 or 56 bits and a last bit records a remainder
roundRatio(neg, n, d, e) ==
    (CHOOSE out \in {(
        (CHOOSE out \in {(
            roundBinary(neg,
                bigAdd(bigShl(qr.quot, 1), IF qr.inexact THEN <<1>> ELSE <<>>),
                e - s - 1)) :
            qr \in {bigDivMod(bigShl(n, IF s > 0 THEN s ELSE 0), bigShl(d, IF s < 0 THEN -s ELSE 0))}} : TRUE)) :
        s \in {55 + bigBits(d) - bigBits(n)}} : TRUE)

\* a TLC integer as a number
Number(i) == roundBinary(i < 0, bigOf(IF i < 0 THEN -i ELSE i), 0)

numNegate(a) == [a EXCEPT !.neg = ~a.neg]

\* Math.abs
numAbs(a) == [a EXCEPT !.neg = FALSE]

isZero(a) == a.k = "fin" /\ a.m = <<>>

\* |a| < |b| for finite a and b
magLess(a, b) ==
    IF b.m = <<>> THEN FALSE
    ELSE IF a.m = <<>> THEN TRUE
    ELSE IF bigBits(a.m) + a.e # bigBits(b.m) + b.e
    THEN bigBits(a.m) + a.e < bigBits(b.m) + b.e
    ELSE IF a.e >= b.e THEN bigLess(bigShl(a.m, a.e - b.e), b.m)
    ELSE bigLess(a.m, bigShl(b.m, b.e - a.e))

\* a < b for numbers held in p; false when either is NaN
lessThan(p) ==
    IF p[1].k = "nan" \/ p[2].k = "nan" THEN FALSE
    ELSE IF p[1].k = "inf" THEN p[1].neg /\ ~(p[2].k = "inf" /\ p[2].neg)
    ELSE IF p[2].k = "inf" THEN ~p[2].neg
    ELSE IF isZero(p[1]) /\ isZero(p[2]) THEN FALSE
    ELSE IF p[1].neg # p[2].neg THEN p[1].neg
    ELSE IF p[1].neg THEN magLess(p[2], p[1]) ELSE magLess(p[1], p[2])

\* a < b
numLess(a, b) == (CHOOSE out \in {( lessThan(p)) : p \in {<<a, b>>}} : TRUE)

\* a === b: the two zeros are equal, NaN equals nothing
numEquals(a, b) ==
    (CHOOSE out \in {(
        /\ p[1].k # "nan" /\ p[2].k # "nan"
        /\ p[1] = p[2] \/ (isZero(p[1]) /\ isZero(p[2]))) :
        p \in {<<a, b>>}} : TRUE)

\* a + b for finite a and b that are not 0: both are brought to the lower
\* exponent e
finiteAdd(a, b, e) ==
    (CHOOSE out \in {(
        IF a.neg = b.neg THEN roundBinary(a.neg, bigAdd(p[1], p[2]), e)
        ELSE IF p[1] = p[2] THEN Zero(FALSE)
        ELSE IF bigLess(p[1], p[2]) THEN roundBinary(b.neg, bigSub(p[2], p[1]), e)
        ELSE roundBinary(a.neg, bigSub(p[1], p[2]), e)) :
        p \in {<<bigShl(a.m, a.e - e), bigShl(b.m, b.e - e)>>}} : TRUE)

\* a + b for numbers held in p
sumOf(p) ==
    IF p[1].k = "nan" \/ p[2].k = "nan" THEN NaN
    ELSE IF p[1].k = "inf"
    THEN IF p[2].k = "inf" /\ p[1].neg # p[2].neg THEN NaN ELSE p[1]
    ELSE IF p[2].k = "inf" THEN p[2]
    ELSE IF isZero(p[1]) /\ isZero(p[2]) THEN Zero(p[1].neg /\ p[2].neg)
    ELSE IF isZero(p[1]) THEN p[2]
    ELSE IF isZero(p[2]) THEN p[1]
    ELSE finiteAdd(p[1], p[2], IF p[1].e < p[2].e THEN p[1].e ELSE p[2].e)

\* a + b
numAdd(a, b) == (CHOOSE out \in {( sumOf(p)) : p \in {<<a, b>>}} : TRUE)

\* a - b
numSub(a, b) == (CHOOSE out \in {( sumOf(p)) : p \in {<<a, numNegate(b)>>}} : TRUE)

\* a * b for numbers held in p
productOf(p) ==
    IF p[1].k = "nan" \/ p[2].k = "nan" THEN NaN
    ELSE IF p[1].k = "inf" \/ p[2].k = "inf"
    THEN IF isZero(p[1]) \/ isZero(p[2]) THEN NaN ELSE Infinite(p[1].neg # p[2].neg)
    ELSE IF isZero(p[1]) \/ isZero(p[2]) THEN Zero(p[1].neg # p[2].neg)
    ELSE roundBinary(p[1].neg # p[2].neg, bigMul(p[1].m, p[2].m), p[1].e + p[2].e)

\* a * b
numMul(a, b) == (CHOOSE out \in {( productOf(p)) : p \in {<<a, b>>}} : TRUE)

\* a / b for numbers held in p
quotientOf(p) ==
    IF p[1].k = "nan" \/ p[2].k = "nan" THEN NaN
    ELSE IF p[1].k = "inf"
    THEN IF p[2].k = "inf" THEN NaN ELSE Infinite(p[1].neg # p[2].neg)
    ELSE IF p[2].k = "inf" THEN Zero(p[1].neg # p[2].neg)
    ELSE IF isZero(p[2])
    THEN IF isZero(p[1]) THEN NaN ELSE Infinite(p[1].neg # p[2].neg)
    ELSE IF isZero(p[1]) THEN Zero(p[1].neg # p[2].neg)
    ELSE IF p[2].m = <<1>>
    THEN roundBinary(p[1].neg # p[2].neg, p[1].m, p[1].e - p[2].e)
    ELSE roundRatio(p[1].neg # p[2].neg, p[1].m, p[2].m, p[1].e - p[2].e)

\* a / b
numDiv(a, b) == (CHOOSE out \in {( quotientOf(p)) : p \in {<<a, b>>}} : TRUE)

\* the root of a finite a > 0: m is shifted to 109 or 110 bits with an even
\* exponent left over, and a last bit records an inexact root
finiteSqrt(a, s) ==
    (CHOOSE out \in {(
        roundBinary(FALSE,
            bigAdd(bigShl(r, 1), IF bigMul(r, r) = bigShl(a.m, s) THEN <<>> ELSE <<1>>),
            ((a.e - s) \div 2) - 1)) :
        r \in {bigSqrt(bigShl(a.m, s))}} : TRUE)

\* Math.sqrt
numSqrt(x) ==
    (CHOOSE out \in {(
        IF a.k = "nan" THEN NaN
        ELSE IF isZero(a) THEN a
        ELSE IF a.neg THEN NaN
        ELSE IF a.k = "inf" THEN a
        ELSE finiteSqrt(a, 109 - bigBits(a.m) + ((a.e - 109 + bigBits(a.m)) % 2))) :
        a \in {x}} : TRUE)

\* the number a decimal numeral stands for: the digits ds (no sign, no point)
\* times 10^exp10
decimalNumber(neg, ds, exp10) ==
    IF \A i \in 1..Len(ds) : ds[i] = 48 THEN Zero(neg)
    ELSE (CHOOSE out \in {(
             IF exp10 + Len(sig) > 310 THEN Infinite(neg)
             ELSE IF exp10 + Len(sig) < -330 THEN Zero(neg)
             ELSE IF exp10 >= 0
             THEN roundBinary(neg, bigTimesPow10(bigOfDigits(sig, 10), exp10), 0)
             ELSE roundRatio(neg, bigOfDigits(sig, 10), bigTimesPow10(<<1>>, -exp10), 0)) :
             sig \in {SubSeq(ds, CHOOSE i \in 1..Len(ds) :
                            ds[i] # 48 /\ \A j \in 1..(i - 1) : ds[j] = 48, Len(ds))}} : TRUE)
\* the string-named methods of Array.prototype that Object.prototype does not have:
\* at, concat, copyWithin, entries, every, fill, filter, find, findIndex, findLast, findLastIndex, flat, flatMap, forEach, includes, indexOf, join, keys, lastIndexOf, map, pop, push, reduce, reduceRight, reverse, shift, slice, some, sort, splice, toReversed, toSorted, toSpliced, unshift, values, with
ArrayPrototypeNames ==
    {
     <<97, 116>>,
     <<99, 111, 110, 99, 97, 116>>,
     <<99, 111, 112, 121, 87, 105, 116, 104, 105, 110>>,
     <<101, 110, 116, 114, 105, 101, 115>>,
     <<101, 118, 101, 114, 121>>,
     <<102, 105, 108, 108>>,
     <<102, 105, 108, 116, 101, 114>>,
     <<102, 105, 110, 100>>,
     <<102, 105, 110, 100, 73, 110, 100, 101, 120>>,
     <<102, 105, 110, 100, 76, 97, 115, 116>>,
     <<102, 105, 110, 100, 76, 97, 115, 116, 73, 110, 100, 101, 120>>,
     <<102, 108, 97, 116>>,
     <<102, 108, 97, 116, 77, 97, 112>>,
     <<102, 111, 114, 69, 97, 99, 104>>,
     <<105, 110, 99, 108, 117, 100, 101, 115>>,
     <<105, 110, 100, 101, 120, 79, 102>>,
     <<106, 111, 105, 110>>,
     <<107, 101, 121, 115>>,
     <<108, 97, 115, 116, 73, 110, 100, 101, 120, 79, 102>>,
     <<109, 97, 112>>,
     <<112, 111, 112>>,
     <<112, 117, 115, 104>>,
     <<114, 101, 100, 117, 99, 101>>,
     <<114, 101, 100, 117, 99, 101, 82, 105, 103, 104, 116>>,
     <<114, 101, 118, 101, 114, 115, 101>>,
     <<115, 104, 105, 102, 116>>,
     <<115, 108, 105, 99, 101>>,
     <<115, 111, 109, 101>>,
     <<115, 111, 114, 116>>,
     <<115, 112, 108, 105, 99, 101>>,
     <<116, 111, 82, 101, 118, 101, 114, 115, 101, 100>>,
     <<116, 111, 83, 111, 114, 116, 101, 100>>,
     <<116, 111, 83, 112, 108, 105, 99, 101, 100>>,
     <<117, 110, 115, 104, 105, 102, 116>>,
     <<118, 97, 108, 117, 101, 115>>,
     <<119, 105, 116, 104>>
    }

\* "true"
Str_true == <<116, 114, 117, 101>>

\* "false"
Str_false == <<102, 97, 108, 115, 101>>

\* "toString"
Str_toString == <<116, 111, 83, 116, 114, 105, 110, 103>>
----------------------------------------------------------------------------
(* JavaScript values: t is the kind; b, n, s and m hold a boolean, a number,
   the characters of a string, the members of an object in the order they
   were created (key and val) or the elements of an array; w names the
   built-in prototype object a value is *)

JsValue(t) == [t |-> t, b |-> FALSE, n |-> Zero(FALSE), s |-> <<>>, m |-> <<>>, w |-> ""]

Undefined == JsValue("undefined")
Null == JsValue("null")
BooleanValue(b) == [JsValue("boolean") EXCEPT !.b = b]
NumberValue(n) == [JsValue("number") EXCEPT !.n = n]
StringValue(s) == [JsValue("string") EXCEPT !.s = s]
ObjectValue(members) == [JsValue("object") EXCEPT !.m = members]
ArrayValue(elements) == [JsValue("array") EXCEPT !.m = elements]
\* a built-in method found on a prototype
FunctionValue == JsValue("function")
\* Object.prototype, Array.prototype, String.prototype, Number.prototype or
\* Boolean.prototype, the value of __proto__
PrototypeValue(kind) == [JsValue("object") EXCEPT !.w = kind]

\* JSON.parse throwing
SyntaxError == JsValue("SyntaxError")

----------------------------------------------------------------------------
(* JSON.parse *)

\* space, tab, line feed, carriage return
JsonWhiteSpace == {32, 9, 10, 13}

\* first position at or after pos that holds no white space
skipWhiteSpace(text, pos) ==
    IF \E i \in pos..Len(text) : text[i] \notin JsonWhiteSpace
    THEN CHOOSE i \in pos..Len(text) :
             text[i] \notin JsonWhiteSpace /\ \A j \in pos..(i - 1) : text[j] \in JsonWhiteSpace
    ELSE Len(text) + 1

\* the characters that may follow a backslash, and what each stands for
SimpleEscapes ==
    (34 :> 34) @@ (92 :> 92) @@ (47 :> 47) @@ (98 :> 8) @@ (102 :> 12)
    @@ (110 :> 10) @@ (114 :> 13) @@ (116 :> 9)

RECURSIVE scanString(_, _)
\* position of the closing quote of the string whose characters start at pos;
\* 0 when there is none or the string is not valid JSON (a raw control
\* character, a bad escape)
scanString(text, pos) ==
    IF pos > Len(text) THEN 0
    ELSE IF text[pos] = Chars.quote THEN pos
    ELSE IF text[pos] < 32 THEN 0
    ELSE IF text[pos] = Chars.backslash
    THEN IF pos + 1 > Len(text) THEN 0
         ELSE IF text[pos + 1] \in DOMAIN SimpleEscapes THEN scanString(text, pos + 2)
         ELSE IF /\ text[pos + 1] = 117
                 /\ pos + 5 <= Len(text)
                 /\ \A i \in (pos + 2)..(pos + 5) : IsHexDigit(text[i])
         THEN scanString(text, pos + 6)
         ELSE 0
    ELSE scanString(text, pos + 1)

RECURSIVE unescape(_)
\* the string value of the characters between the quotes of a valid string
unescape(raw) ==
    IF raw = <<>> THEN <<>>
    ELSE IF raw[1] # Chars.backslash THEN <<raw[1]>> \o unescape(Tail(raw))
    ELSE IF raw[2] = 117
    THEN <<((hexDigitValue(raw[3]) * 16 + hexDigitValue(raw[4])) * 16
            + hexDigitValue(raw[5])) * 16 + hexDigitValue(raw[6])>>
         \o unescape(SubSeq(raw, 7, Len(raw)))
    ELSE <<SimpleEscapes[raw[2]]>> \o unescape(SubSeq(raw, 3, Len(raw)))

NoValue == [ok |-> FALSE, val |-> Undefined, next |-> 0]

\* a string token whose opening quote is at pos
parseString(text, pos) ==
    (CHOOSE out \in {(
        IF close = 0 THEN NoValue
        ELSE [ok |-> TRUE,
              val |-> StringValue(unescape(SubSeq(text, pos + 1, close - 1))),
              next |-> close + 1]) :
        close \in {scanString(text, pos + 1)}} : TRUE)

\* where the fraction of a number ends whose integer part ends before pos:
\* pos when there is no fraction, 0 when no digit follows the point
fractionEnd(text, pos) ==
    IF pos <= Len(text) /\ text[pos] = Chars.dot
    THEN IF pos + 1 <= Len(text) /\ IsDigit(text[pos + 1])
         THEN digitsEnd(text, pos + 1) ELSE 0
    ELSE pos

\* where the digits of an exponent start that is written at pos (after e or E
\* and a sign)
exponentStart(text, pos) ==
    IF pos + 1 <= Len(text) /\ text[pos + 1] \in {Chars.plus, Chars.dash}
    THEN pos + 2 ELSE pos + 1

\* where the exponent of a number ends whose fraction ends before pos: pos
\* when there is no exponent, 0 when no digit follows
exponentEnd(text, pos) ==
    IF pos <= Len(text) /\ text[pos] \in {101, 69}
    THEN IF /\ exponentStart(text, pos) <= Len(text)
            /\ IsDigit(text[exponentStart(text, pos)])
         THEN digitsEnd(text, exponentStart(text, pos)) ELSE 0
    ELSE pos

\* the number a decimal literal stands for: integer digits, fraction digits
\* and the digits of the exponent with its sign
literalNumber(neg, int, frac, expNeg, expDigits) ==
    decimalNumber(neg, int \o frac,
                  (IF expNeg THEN -exponentValue(expDigits) ELSE exponentValue(expDigits))
                  - Len(frac))

\* the number token from pos to before expEnd; its digits start at first, its
\* integer part ends before intEnd and its fraction before fracEnd
tokenNumber(text, pos, first, intEnd, fracEnd, expEnd) ==
    literalNumber(text[pos] = Chars.dash,
                  SubSeq(text, first, intEnd - 1),
                  SubSeq(text, intEnd + 1, fracEnd - 1),
                  expEnd > fracEnd /\ text[fracEnd + 1] = Chars.dash,
                  SubSeq(text, IF expEnd > fracEnd THEN exponentStart(text, fracEnd)
                               ELSE expEnd,
                         expEnd - 1))

\* a number token at pos: -? (0 | [1-9][0-9]*) (. [0-9]+)? ([eE] [+-]? [0-9]+)?
parseNumber(text, pos) ==
    (CHOOSE out \in {(
        IF first > Len(text) \/ ~IsDigit(text[first]) THEN NoValue
        ELSE (CHOOSE out \in {(
               (CHOOSE out \in {(
                 IF fracEnd = 0 THEN NoValue
                 ELSE (CHOOSE out \in {(
                        IF expEnd = 0 THEN NoValue
                        ELSE [ok |-> TRUE,
                              val |-> NumberValue(tokenNumber(text, pos, first, intEnd,
                                                              fracEnd, expEnd)),
                              next |-> expEnd]) :
                        expEnd \in {exponentEnd(text, fracEnd)}} : TRUE)) :
                 fracEnd \in {fractionEnd(text, intEnd)}} : TRUE)) :
               intEnd \in {IF text[first] = Chars.zero THEN first + 1 ELSE digitsEnd(text, first)}} : TRUE)) :
        first \in {IF text[pos] = Chars.dash THEN pos + 1 ELSE pos}} : TRUE)

\* the characters of word are in text from pos on
wordAt(text, pos, word) ==
    /\ pos + Len(word) - 1 <= Len(text)
    /\ \A i \in 1..Len(word) : text[pos + i - 1] = word[i]

\* a property written again keeps its place and takes the later value
setField(fields, key, val) ==
    IF \E i \in 1..Len(fields) : fields[i].key = key
    THEN [i \in 1..Len(fields) |->
             IF fields[i].key = key THEN [key |-> key, val |-> val] ELSE fields[i]]
    ELSE Append(fields, [key |-> key, val |-> val])

RECURSIVE parseToken(_, _)
RECURSIVE parseElements(_, _, _)
RECURSIVE parseMembers(_, _, _)

\* a JSON value at or after pos, white space before it skipped
parseValue(text, pos) ==
    (CHOOSE out \in {( parseToken(text, start)) : start \in {skipWhiteSpace(text, pos)}} : TRUE)

\* a JSON value that starts at pos
parseToken(text, pos) ==
    IF pos > Len(text) THEN NoValue
    ELSE IF text[pos] = Chars.quote THEN parseString(text, pos)
    ELSE IF text[pos] = Chars.dash \/ IsDigit(text[pos]) THEN parseNumber(text, pos)
    ELSE IF wordAt(text, pos, Str_null)
    THEN [ok |-> TRUE, val |-> Null, next |-> pos + 4]
    ELSE IF wordAt(text, pos, Str_true)
    THEN [ok |-> TRUE, val |-> BooleanValue(TRUE), next |-> pos + 4]
    ELSE IF wordAt(text, pos, Str_false)
    THEN [ok |-> TRUE, val |-> BooleanValue(FALSE), next |-> pos + 5]
    ELSE IF text[pos] = Chars.lbracket
    THEN (CHOOSE out \in {(
             IF first <= Len(text) /\ text[first] = Chars.rbracket
             THEN [ok |-> TRUE, val |-> ArrayValue(<<>>), next |-> first + 1]
             ELSE parseElements(text, first, <<>>)) :
             first \in {skipWhiteSpace(text, pos + 1)}} : TRUE)
    ELSE IF text[pos] = Chars.lbrace
    THEN (CHOOSE out \in {(
             IF first <= Len(text) /\ text[first] = Chars.rbrace
             THEN [ok |-> TRUE, val |-> ObjectValue(<<>>), next |-> first + 1]
             ELSE parseMembers(text, first, <<>>)) :
             first \in {skipWhiteSpace(text, pos + 1)}} : TRUE)
    ELSE NoValue

\* the elements of an array from pos on, up to its closing bracket
parseElements(text, pos, elements) ==
    (CHOOSE out \in {(
        IF ~v.ok THEN NoValue
        ELSE (CHOOSE out \in {(
               IF after > Len(text) THEN NoValue
               ELSE IF text[after] = Chars.comma
               THEN (CHOOSE out \in {( parseElements(text, after + 1, all)) :
                          all \in {Append(elements, v.val)}} : TRUE)
               ELSE IF text[after] = Chars.rbracket
               THEN [ok |-> TRUE, val |-> ArrayValue(Append(elements, v.val)),
                     next |-> after + 1]
               ELSE NoValue) :
               after \in {skipWhiteSpace(text, v.next)}} : TRUE)) :
        v \in {parseValue(text, pos)}} : TRUE)

\* the member of an object whose key starts at pos (or should), and the
\* members after it up to the closing brace
parseMembers(text, pos, members) ==
    IF pos > Len(text) \/ text[pos] # Chars.quote THEN NoValue
    ELSE (CHOOSE out \in {(
           IF ~k.ok THEN NoValue
           ELSE (CHOOSE out \in {(
                  IF colon > Len(text) \/ text[colon] # Chars.colon THEN NoValue
                  ELSE (CHOOSE out \in {(
                         IF ~v.ok THEN NoValue
                         ELSE (CHOOSE out \in {(
                                IF after > Len(text) THEN NoValue
                                ELSE IF text[after] = Chars.comma
                                THEN (CHOOSE out \in {( parseMembers(text, st[1], st[2])) :
                                           st \in {<<skipWhiteSpace(text, after + 1),
                                             setField(members, k.val.s, v.val)>>}} : TRUE)
                                ELSE IF text[after] = Chars.rbrace
                                THEN [ok |-> TRUE,
                                      val |-> ObjectValue(setField(members, k.val.s, v.val)),
                                      next |-> after + 1]
                                ELSE NoValue) :
                                after \in {skipWhiteSpace(text, v.next)}} : TRUE)) :
                         v \in {parseValue(text, colon + 1)}} : TRUE)) :
                  colon \in {skipWhiteSpace(text, k.next)}} : TRUE)) :
           k \in {parseString(text, pos)}} : TRUE)

\* JSON.parse; a SyntaxError is a value of this operator
JsonParse(text) ==
    (CHOOSE out \in {(
        IF v.ok /\ skipWhiteSpace(text, v.next) > Len(text) THEN v.val ELSE SyntaxError) :
        v \in {parseValue(text, 1)}} : TRUE)
\* "4294967294", the largest array index (2^32 - 2)
MaxArrayIndexText == <<52, 50, 57, 52, 57, 54, 55, 50, 57, 52>>

\* a and b are numerals without leading zeros: a <= b as numbers
numeralLeq(a, b) ==
    \/ Len(a) < Len(b)
    \/ /\ Len(a) = Len(b)
       /\ \/ a = b
          \/ \E i \in 1..Len(a) : a[i] < b[i] /\ \A j \in 1..(i - 1) : a[j] = b[j]

\* an integer-like property name ("0", "7", "12"): the canonical numeral of an
\* integer from 0 to 2^32 - 2
IsArrayIndex(key) ==
    /\ Len(key) >= 1
    /\ \A i \in 1..Len(key) : IsDigit(key[i])
    /\ Len(key) = 1 \/ key[1] # Chars.zero
    /\ numeralLeq(key, MaxArrayIndexText)
\* the string-named properties of Object.prototype:
\* constructor, __defineGetter__, __defineSetter__, hasOwnProperty, __lookupGetter__, __lookupSetter__, isPrototypeOf, propertyIsEnumerable, toString, valueOf, __proto__, toLocaleString
ObjectPrototypeNames ==
    {
     <<99, 111, 110, 115, 116, 114, 117, 99, 116, 111, 114>>,
     <<95, 95, 100, 101, 102, 105, 110, 101, 71, 101, 116, 116, 101, 114, 95, 95>>,
     <<95, 95, 100, 101, 102, 105, 110, 101, 83, 101, 116, 116, 101, 114, 95, 95>>,
     <<104, 97, 115, 79, 119, 110, 80, 114, 111, 112, 101, 114, 116, 121>>,
     <<95, 95, 108, 111, 111, 107, 117, 112, 71, 101, 116, 116, 101, 114, 95, 95>>,
     <<95, 95, 108, 111, 111, 107, 117, 112, 83, 101, 116, 116, 101, 114, 95, 95>>,
     <<105, 115, 80, 114, 111, 116, 111, 116, 121, 112, 101, 79, 102>>,
     <<112, 114, 111, 112, 101, 114, 116, 121, 73, 115, 69, 110, 117, 109, 101, 114, 97, 98, 108, 101>>,
     <<116, 111, 83, 116, 114, 105, 110, 103>>,
     <<118, 97, 108, 117, 101, 79, 102>>,
     <<95, 95, 112, 114, 111, 116, 111, 95, 95>>,
     <<116, 111, 76, 111, 99, 97, 108, 101, 83, 116, 114, 105, 110, 103>>
    }

\* the string-named methods of String.prototype that Object.prototype does not have:
\* anchor, at, big, blink, bold, charAt, charCodeAt, codePointAt, concat, endsWith, fontcolor, fontsize, fixed, includes, indexOf, isWellFormed, italics, lastIndexOf, link, localeCompare, match, matchAll, normalize, padEnd, padStart, repeat, replace, replaceAll, search, slice, small, split, strike, sub, substr, substring, sup, startsWith, toWellFormed, trim, trimStart, trimLeft, trimEnd, trimRight, toLocaleLowerCase, toLocaleUpperCase, toLowerCase, toUpperCase
StringPrototypeNames ==
    {
     <<97, 110, 99, 104, 111, 114>>,
     <<97, 116>>,
     <<98, 105, 103>>,
     <<98, 108, 105, 110, 107>>,
     <<98, 111, 108, 100>>,
     <<99, 104, 97, 114, 65, 116>>,
     <<99, 104, 97, 114, 67, 111, 100, 101, 65, 116>>,
     <<99, 111, 100, 101, 80, 111, 105, 110, 116, 65, 116>>,
     <<99, 111, 110, 99, 97, 116>>,
     <<101, 110, 100, 115, 87, 105, 116, 104>>,
     <<102, 111, 110, 116, 99, 111, 108, 111, 114>>,
     <<102, 111, 110, 116, 115, 105, 122, 101>>,
     <<102, 105, 120, 101, 100>>,
     <<105, 110, 99, 108, 117, 100, 101, 115>>,
     <<105, 110, 100, 101, 120, 79, 102>>,
     <<105, 115, 87, 101, 108, 108, 70, 111, 114, 109, 101, 100>>,
     <<105, 116, 97, 108, 105, 99, 115>>,
     <<108, 97, 115, 116, 73, 110, 100, 101, 120, 79, 102>>,
     <<108, 105, 110, 107>>,
     <<108, 111, 99, 97, 108, 101, 67, 111, 109, 112, 97, 114, 101>>,
     <<109, 97, 116, 99, 104>>,
     <<109, 97, 116, 99, 104, 65, 108, 108>>,
     <<110, 111, 114, 109, 97, 108, 105, 122, 101>>,
     <<112, 97, 100, 69, 110, 100>>,
     <<112, 97, 100, 83, 116, 97, 114, 116>>,
     <<114, 101, 112, 101, 97, 116>>,
     <<114, 101, 112, 108, 97, 99, 101>>,
     <<114, 101, 112, 108, 97, 99, 101, 65, 108, 108>>,
     <<115, 101, 97, 114, 99, 104>>,
     <<115, 108, 105, 99, 101>>,
     <<115, 109, 97, 108, 108>>,
     <<115, 112, 108, 105, 116>>,
     <<115, 116, 114, 105, 107, 101>>,
     <<115, 117, 98>>,
     <<115, 117, 98, 115, 116, 114>>,
     <<115, 117, 98, 115, 116, 114, 105, 110, 103>>,
     <<115, 117, 112>>,
     <<115, 116, 97, 114, 116, 115, 87, 105, 116, 104>>,
     <<116, 111, 87, 101, 108, 108, 70, 111, 114, 109, 101, 100>>,
     <<116, 114, 105, 109>>,
     <<116, 114, 105, 109, 83, 116, 97, 114, 116>>,
     <<116, 114, 105, 109, 76, 101, 102, 116>>,
     <<116, 114, 105, 109, 69, 110, 100>>,
     <<116, 114, 105, 109, 82, 105, 103, 104, 116>>,
     <<116, 111, 76, 111, 99, 97, 108, 101, 76, 111, 119, 101, 114, 67, 97, 115, 101>>,
     <<116, 111, 76, 111, 99, 97, 108, 101, 85, 112, 112, 101, 114, 67, 97, 115, 101>>,
     <<116, 111, 76, 111, 119, 101, 114, 67, 97, 115, 101>>,
     <<116, 111, 85, 112, 112, 101, 114, 67, 97, 115, 101>>
    }

\* the string-named methods of Number.prototype that Object.prototype does not have:
\* toExponential, toFixed, toPrecision
NumberPrototypeNames ==
    {
     <<116, 111, 69, 120, 112, 111, 110, 101, 110, 116, 105, 97, 108>>,
     <<116, 111, 70, 105, 120, 101, 100>>,
     <<116, 111, 80, 114, 101, 99, 105, 115, 105, 111, 110>>
    }

\* "length"
Str_length == <<108, 101, 110, 103, 116, 104>>

\* "__proto__"
Str_proto == <<95, 95, 112, 114, 111, 116, 111, 95, 95>>

\* key is the canonical numeral of an index below length
indexBelow(key, length) ==
    IsArrayIndex(key) /\ Len(key) <= 9 /\ decimalValue(key, 0) < length

\* data.__proto__ when data has no own property of that name
prototypeOf(data) ==
    PrototypeValue(IF data.t = "array" THEN "Array"
                   ELSE IF data.t = "string" THEN "String"
                   ELSE IF data.t = "number" THEN "Number"
                   ELSE IF data.t = "boolean" THEN "Boolean"
                   ELSE "Object")

\* data[key] for the value JSON.parse returned (not null): an own property,
\* then the prototype chain
getField(data, key) ==
    IF data.t = "object" /\ \E i \in 1..Len(data.m) : data.m[i].key = key
    THEN data.m[CHOOSE i \in 1..Len(data.m) : data.m[i].key = key].val
    ELSE IF data.t = "array" /\ key = Str_length THEN NumberValue(Number(Len(data.m)))
    ELSE IF data.t = "string" /\ key = Str_length THEN NumberValue(Number(Len(data.s)))
    ELSE IF data.t = "array" /\ indexBelow(key, Len(data.m))
    THEN data.m[decimalValue(key, 0) + 1]
    ELSE IF data.t = "string" /\ indexBelow(key, Len(data.s))
    THEN StringValue(<<data.s[decimalValue(key, 0) + 1]>>)
    ELSE IF key = Str_proto THEN prototypeOf(data)
    ELSE IF \/ key \in ObjectPrototypeNames
            \/ data.t = "array" /\ key \in ArrayPrototypeNames
            \/ data.t = "string" /\ key \in StringPrototypeNames
            \/ data.t = "number" /\ key \in NumberPrototypeNames
    THEN FunctionValue
    ELSE Undefined

RECURSIVE ascendingIndexKeys(_)
\* a set of array-index keys in ascending numeric order
ascendingIndexKeys(keys) ==
    IF keys = {} THEN <<>>
    ELSE (CHOOSE out \in {( <<least>> \o ascendingIndexKeys(keys \ {least})) :
               least \in {CHOOSE k \in keys : \A o \in keys : numeralLeq(k, o)}} : TRUE)

\* the keys of the members that are not array indexes, in the order the
\* members were created
otherKeys(fields) ==
    (CHOOSE out \in {( [i \in 1..Len(kept) |-> fields[kept[i]].key]) :
          kept \in {SelectSeq([i \in 1..Len(fields) |-> i],
                    LAMBDA i : ~IsArrayIndex(fields[i].key))}} : TRUE)

\* for-in taking the keys of an object in the order they were added
forInKeys_asAdded(data) ==
    IF data.t = "object" THEN [i \in 1..Len(data.m) |-> data.m[i].key]
    ELSE IF data.t = "array" THEN [i \in 1..Len(data.m) |-> decimalDigits(i - 1)]
    ELSE IF data.t = "string" THEN [i \in 1..Len(data.s) |-> decimalDigits(i - 1)]
    ELSE <<>>

\* "for (const key in data)": the integer-like keys of an object ascending,
\* then its other keys in the order they were created; the indexes of an
\* array or a string; nothing for a number or a boolean
forInKeys(data) ==
    IF data.t = "object"
    THEN ascendingIndexKeys({data.m[i].key : i \in {j \in 1..Len(data.m) :
                                                     IsArrayIndex(data.m[j].key)}})
         \o otherKeys(data.m)
    ELSE IF data.t = "array" THEN [i \in 1..Len(data.m) |-> decimalDigits(i - 1)]
    ELSE IF data.t = "string" THEN [i \in 1..Len(data.s) |-> decimalDigits(i - 1)]
    ELSE <<>>

----------------------------------------------------------------------------
(* Conversion of values to numbers *)

\* white space and line terminators, which a numeric string may start and end with
StrWhiteSpace ==
    {9, 10, 11, 12, 13, 32, 160, 5760, 8232, 8233, 8239, 8287, 12288, 65279}
    \cup 8192..8202

\* s without the white space at its start and end
trim(s) ==
    IF \A i \in 1..Len(s) : s[i] \in StrWhiteSpace THEN <<>>
    ELSE SubSeq(s,
                CHOOSE i \in 1..Len(s) :
                    s[i] \notin StrWhiteSpace /\ \A j \in 1..(i - 1) : s[j] \in StrWhiteSpace,
                CHOOSE i \in 1..Len(s) :
                    s[i] \notin StrWhiteSpace
                    /\ \A j \in (i + 1)..Len(s) : s[j] \in StrWhiteSpace)

\* "Infinity"
Str_Infinity == <<73, 110, 102, 105, 110, 105, 116, 121>>

\* first position of s holding a character of cs; 0 when there is none
firstOf(s, cs) ==
    IF \E i \in 1..Len(s) : s[i] \in cs
    THEN CHOOSE i \in 1..Len(s) : s[i] \in cs /\ \A j \in 1..(i - 1) : s[j] \notin cs
    ELSE 0

\* 0x / 0o / 0b literals: no sign, at least one digit of the radix
radixLiteral(t) ==
    (CHOOSE out \in {(
        IF /\ Len(t) > 2
           /\ \A i \in 3..Len(t) : IsHexDigit(t[i]) /\ hexDigitValue(t[i]) < radix
        THEN roundBinary(FALSE, bigOfDigits(SubSeq(t, 3, Len(t)), radix), 0)
        ELSE NaN) :
        radix \in {IF t[2] \in {120, 88} THEN 16 ELSE IF t[2] \in {111, 79} THEN 8 ELSE 2}} : TRUE)

\* a decimal literal without its sign, the mantissa ending before ePos (the
\* position of e or E, or one past the end) and the point at dot (0: none)
decimalParts(b, neg, ePos, dot) ==
    (CHOOSE out \in {(
        IF \/ Len(p.int) + Len(p.frac) = 0
           \/ \E i \in 1..Len(p.int) : ~IsDigit(p.int[i])
           \/ \E i \in 1..Len(p.frac) : ~IsDigit(p.frac[i])
           \/ ePos <= Len(b) /\ p.digits = <<>>
           \/ \E i \in 1..Len(p.digits) : ~IsDigit(p.digits[i])
        THEN NaN
        ELSE literalNumber(neg, p.int, p.frac, p.expNeg, p.digits)) :
        p \in {[int    |-> SubSeq(b, 1, (IF dot = 0 THEN ePos ELSE dot) - 1),
         frac   |-> IF dot = 0 THEN <<>> ELSE SubSeq(b, dot + 1, ePos - 1),
         expNeg |-> ePos < Len(b) /\ b[ePos + 1] = Chars.dash,
         digits |-> SubSeq(b, IF ePos < Len(b) /\ b[ePos + 1] \in {Chars.plus, Chars.dash}
                              THEN ePos + 2 ELSE ePos + 1,
                           Len(b))]}} : TRUE)

\* an unsigned decimal literal: digits with an optional fraction and an
\* optional exponent, or Infinity
unsignedDecimal(b, neg) ==
    IF b = Str_Infinity THEN Infinite(neg)
    ELSE (CHOOSE out \in {(
             decimalParts(b, neg, ePos, firstOf(SubSeq(b, 1, ePos - 1), {Chars.dot}))) :
             ePos \in {IF firstOf(b, {101, 69}) = 0 THEN Len(b) + 1 ELSE firstOf(b, {101, 69})}} : TRUE)

\* the number a string converts to
stringToNumber(s) ==
    (CHOOSE out \in {(
        IF t = <<>> THEN Zero(FALSE)
        ELSE IF Len(t) >= 2 /\ t[1] = 48 /\ t[2] \in {120, 88, 111, 79, 98, 66}
        THEN radixLiteral(t)
        ELSE IF t[1] = Chars.dash THEN unsignedDecimal(Tail(t), TRUE)
        ELSE IF t[1] = Chars.plus THEN unsignedDecimal(Tail(t), FALSE)
        ELSE unsignedDecimal(t, FALSE)) :
        t \in {trim(s)}} : TRUE)

RECURSIVE toNumberThrows(_)
\* the conversion of v to a primitive throws a TypeError: an object (or an
\* object in an array) has an own property toString, which is not a function
toNumberThrows(v) ==
    \/ v.t = "object" /\ \E i \in 1..Len(v.m) : v.m[i].key = Str_toString
    \/ v.t = "array" /\ \E i \in 1..Len(v.m) : toNumberThrows(v.m[i])

RECURSIVE toNumber(_)
\* the number a value compares and subtracts as, when the conversion does
\* not throw.  An array converts through its string, the elements joined by
\* commas: null is written as nothing, a number by digits that read back as
\* the same number (-0 as 0).  A plain object is "[object Object]", a method
\* its source text, Object.prototype the same; the other prototype objects
\* hold the empty string, 0 and false
toNumber(v) ==
    IF v.t = "number" THEN v.n
    ELSE IF v.t = "string" THEN stringToNumber(v.s)
    ELSE IF v.t = "boolean" THEN Number(IF v.b THEN 1 ELSE 0)
    ELSE IF v.t = "null" THEN Zero(FALSE)
    ELSE IF v.t = "array"
    THEN IF v.m = <<>> THEN Zero(FALSE)
         ELSE IF Len(v.m) > 1 THEN NaN
         ELSE IF v.m[1].t = "null" THEN Zero(FALSE)
         ELSE IF v.m[1].t = "number"
         THEN (IF isZero(v.m[1].n) THEN Zero(FALSE) ELSE v.m[1].n)
         ELSE IF v.m[1].t \in {"string", "array"} THEN toNumber(v.m[1])
         ELSE NaN
    ELSE IF v.t = "object" /\ v.w \in {"Array", "String", "Number", "Boolean"}
    THEN Zero(FALSE)
    ELSE NaN

\* neither undefined, null, false, 0, NaN nor the empty string
truthy(v) ==
    \/ v.t = "boolean" /\ v.b
    \/ v.t = "number" /\ v.n.k # "nan" /\ ~isZero(v.n)
    \/ v.t = "string" /\ v.s # <<>>
    \/ v.t \in {"function", "object", "array"}

----------------------------------------------------------------------------
(* dataAggregation.extractNumericValue *)

Sample(n) == [threw |-> FALSE, some |-> TRUE, n |-> n]
NoSample == [threw |-> FALSE, some |-> FALSE, n |-> Zero(FALSE)]
Thrown == [threw |-> TRUE, some |-> FALSE, n |-> Zero(FALSE)]

\* the loop "for (const key in data) if (typeof data[key] === 'number') return"
firstNumber(data, keys) ==
    IF \E i \in 1..Len(keys) : getField(data, keys[i]).t = "number"
    THEN Sample(getField(data, keys[CHOOSE i \in 1..Len(keys) :
                    /\ getField(data, keys[i]).t = "number"
                    /\ \A j \in 1..(i - 1) : getField(data, keys[j]).t # "number"]).n)
    ELSE NoSample

\* the try block on the parsed data; the TypeError of reading a property of
\* null is a throw
sampleOf(data, dataType) ==
    IF data.t = "SyntaxError" \/ data.t = "null" THEN Thrown
    ELSE IF getField(data, Str_value).t = "number"
    THEN Sample(getField(data, Str_value).n)
    ELSE IF dataType # <<>> /\ getField(data, dataType).t = "number"
    THEN Sample(getField(data, dataType).n)
    ELSE (CHOOSE out \in {( firstNumber(data, keys)) : keys \in {forInKeys(data)}} : TRUE)

\* the body of the try block; JSON.parse's SyntaxError is a throw
extractNumericValueBody(reading) ==
    (CHOOSE out \in {( sampleOf(data, reading.dataType)) : data \in {JsonParse(reading.data)}} : TRUE)

extractNumericValue_noCatch(reading) == extractNumericValueBody(reading)

\* try { ... } catch (error) { return null }
extractNumericValue(reading) ==
    (CHOOSE out \in {( IF r.threw THEN NoSample ELSE r) : r \in {extractNumericValueBody(reading)}} : TRUE)

\* milliseconds in an hour
HourMs == 1000 * 60 * 60
----------------------------------------------------------------------------
(* dataAggregation.calculateStatistics, in the arithmetic of JavaScript
   numbers; Math.pow(x, 2) is taken as the correctly rounded square x * x *)

\* values.reduce((acc, val) => acc + val, 0)
RECURSIVE sumFrom(_, _, _)
sumFrom(values, i, acc) ==
    IF i > Len(values) THEN acc
    ELSE (CHOOSE out \in {( sumFrom(values, i + 1, next)) : next \in {numAdd(acc, values[i])}} : TRUE)

\* the comparator (a, b) => a - b as the sort reads it: the sign of the
\* difference, a difference of NaN counting as 0
compareNumbers(a, b) ==
    (CHOOSE out \in {(
        IF v.k = "nan" THEN 0
        ELSE IF numLess(v, Zero(FALSE)) THEN -1
        ELSE IF numLess(Zero(FALSE), v) THEN 1
        ELSE 0) : v \in {numSub(a, b)}} : TRUE)

(* Array.prototype.sort as V8 (Node, Chromium) runs it: the language leaves   *)
(* the order open when the comparator is not consistent, which is the case as *)
(* soon as a difference is NaN, and the result is then the engine's.  The     *)
(* engine's routine works on a copy of the elements (workArray) with indexes  *)
(* counted from 0; an index i is the element work[i + 1] here.                *)

\* Copy(source, srcPos, target, dstPos, length)
copyRange(source, srcPos, target, dstPos, length) ==
    <<>> \o [k \in 1..Len(target) |->
                IF dstPos < k /\ k <= dstPos + length
                THEN source[srcPos + (k - dstPos)] ELSE target[k]]

\* ReverseRange(array, from, to)
reverseRange(array, from, to) ==
    <<>> \o [k \in 1..Len(array) |->
                IF from < k /\ k <= to THEN array[from + to + 1 - k] ELSE array[k]]

RECURSIVE minRunLengthFrom(_, _)
minRunLengthFrom(n, r) ==
    IF n >= 64 THEN minRunLengthFrom(n \div 2, IF n % 2 = 1 THEN 1 ELSE r)
    ELSE n + r

\* ComputeMinRunLength: n itself below 64, otherwise a number from 32 to 64
computeMinRunLength(n) == minRunLengthFrom(n, 0)

RECURSIVE runEnd(_, _, _, _)
\* the index after the run: a descending run goes on while each element
\* compares below the one before it, an ascending run while it does not
runEnd(work, isDescending, idx, high) ==
    IF ~(idx < high) THEN idx
    ELSE (CHOOSE out \in {(
             IF (isDescending /\ order >= 0) \/ (~isDescending /\ order < 0)
             THEN idx
             ELSE runEnd(work, isDescending, idx + 1, high)) :
             order \in {compareNumbers(work[idx + 1], work[idx])}} : TRUE)

\* CountAndMakeRun(lowArg, high): the run that starts at lowArg, made
\* ascending: a descending run is reversed in place
countAndMakeRun(work, lowArg, high) ==
    IF lowArg + 1 = high THEN [runLength |-> 1, work |-> work]
    ELSE (CHOOSE out \in {(
            (CHOOSE out \in {(
                 [runLength |-> end - lowArg,
                  work |-> IF isDescending THEN reverseRange(work, lowArg, end)
                           ELSE work]) :
               end \in {runEnd(work, isDescending, lowArg + 2, high)}} : TRUE)) :
            isDescending \in {compareNumbers(work[lowArg + 2], work[lowArg + 1]) < 0}} : TRUE)

RECURSIVE insertionPoint(_, _, _, _)
\* the binary search for the place of pivot among the elements left..right-1
insertionPoint(work, pivot, left, right) ==
    IF ~(left < right) THEN left
    ELSE (CHOOSE out \in {(
             IF compareNumbers(pivot, work[mid + 1]) < 0
             THEN insertionPoint(work, pivot, left, mid)
             ELSE insertionPoint(work, pivot, mid + 1, right)) :
             mid \in {left + ((right - left) \div 2)}} : TRUE)

RECURSIVE insertFrom(_, _, _, _)
\* the elements start..high-1 are inserted one after the other into the
\* sorted elements low..start-1
insertFrom(work, low, start, high) ==
    IF ~(start < high) THEN work
    ELSE (CHOOSE out \in {(
            (CHOOSE out \in {( insertFrom(next, low, start + 1, high)) :
               next \in {SubSeq(work, 1, left) \o <<work[start + 1]>>
                            \o SubSeq(work, left + 1, start)
                            \o SubSeq(work, start + 2, Len(work))}} : TRUE)) :
            left \in {insertionPoint(work, work[start + 1], low, start)}} : TRUE)

\* BinaryInsertionSort(low, startArg, high)
binaryInsertionSort(work, low, startArg, high) ==
    insertFrom(work, low, IF low = startArg THEN startArg + 1 ELSE startArg, high)

\* the comparison of a gallop: GallopRight compares the key with the element,
\* GallopLeft the element with the key
gallopOrder(keyFirst, key, element) ==
    IF keyFirst THEN compareNumbers(key, element) ELSE compareNumbers(element, key)

RECURSIVE gallopFrom(_, _, _, _, _, _, _, _, _)
\* the galloping loop: offsets 1, 3, 7, ... from the element at index from,
\* in direction step, until the comparison tells to stop (stopBelow: at a
\* result below 0; otherwise at a result of 0 or above) or maxOfs is reached;
\* gives <<lastOfs, offset>>
gallopFrom(array, key, keyFirst, from, step, stopBelow, lastOfs, offset, maxOfs) ==
    IF ~(offset < maxOfs) THEN <<lastOfs, offset>>
    ELSE (CHOOSE out \in {(
             IF (stopBelow /\ order < 0) \/ (~stopBelow /\ order >= 0)
             THEN <<lastOfs, offset>>
             ELSE gallopFrom(array, key, keyFirst, from, step, stopBelow,
                             offset, (2 * offset) + 1, maxOfs)) :
             order \in {gallopOrder(keyFirst, key,
                                    array[from + (step * offset) + 1])}} : TRUE)

RECURSIVE gallopBisect(_, _, _, _, _, _)
\* the binary search that ends a gallop
gallopBisect(array, key, keyFirst, base, lastOfs, offset) ==
    IF ~(lastOfs < offset) THEN offset
    ELSE (CHOOSE out \in {(
            (CHOOSE out \in {(
                 IF keyFirst
                 THEN (IF order < 0
                       THEN gallopBisect(array, key, keyFirst, base, lastOfs, m)
                       ELSE gallopBisect(array, key, keyFirst, base, m + 1, offset))
                 ELSE (IF order < 0
                       THEN gallopBisect(array, key, keyFirst, base, m + 1, offset)
                       ELSE gallopBisect(array, key, keyFirst, base, lastOfs, m))) :
               order \in {gallopOrder(keyFirst, key, array[base + m + 1])}} : TRUE)) :
            m \in {lastOfs + ((offset - lastOfs) \div 2)}} : TRUE)

\* GallopLeft(array, key, base, length, hint)
gallopLeft(array, key, base, length, hint) ==
    (CHOOSE out \in {( gallopBisect(array, key, FALSE, base, found[1] + 1, found[2])) :
        found \in {
            IF compareNumbers(array[base + hint + 1], key) < 0
            THEN (CHOOSE out \in {( <<r[1] + hint, Min(r[2], length - hint) + hint>>) :
                     r \in {gallopFrom(array, key, FALSE, base + hint, 1, FALSE,
                                       0, 1, length - hint)}} : TRUE)
            ELSE (CHOOSE out \in {( <<hint - Min(r[2], hint + 1), hint - r[1]>>) :
                     r \in {gallopFrom(array, key, FALSE, base + hint, -1, TRUE,
                                       0, 1, hint + 1)}} : TRUE)}} : TRUE)

\* GallopRight(array, key, base, length, hint)
gallopRight(array, key, base, length, hint) ==
    (CHOOSE out \in {( gallopBisect(array, key, TRUE, base, found[1] + 1, found[2])) :
        found \in {
            IF compareNumbers(key, array[base + hint + 1]) < 0
            THEN (CHOOSE out \in {( <<hint - Min(r[2], hint + 1), hint - r[1]>>) :
                     r \in {gallopFrom(array, key, TRUE, base + hint, -1, FALSE,
                                       0, 1, hint + 1)}} : TRUE)
            ELSE (CHOOSE out \in {( <<r[1] + hint, Min(r[2], length - hint) + hint>>) :
                     r \in {gallopFrom(array, key, TRUE, base + hint, 1, TRUE,
                                       0, 1, length - hint)}} : TRUE)}} : TRUE)

(* MergeLow and MergeHigh.  The state of a merge: the work array, the copy    *)
(* temp of the shorter run, the indexes dest, cursorTemp and cursor (cursorB  *)
(* in MergeLow, cursorA in MergeHigh), the lengths left of both runs, the     *)
(* gallop threshold and the wins counted; at tells where the routine is: in   *)
(* the one-at-a-time loop ("one"), in the galloping loop ("gallop"), or at    *)
(* one of its exit labels.                                                    *)

\* leaving the one-at-a-time loop for the galloping loop: ++minGallop
toGallop(s) == [s EXCEPT !.at = "gallop", !.minGallop = @ + 1, !.first = TRUE]

\* one turn of MergeLow's one-at-a-time loop
lowOne(s) ==
    IF compareNumbers(s.work[s.cursor + 1], s.temp[s.cursorTemp + 1]) < 0
    THEN (CHOOSE out \in {(
    IF t.lengthB = 0 THEN [t EXCEPT !.at = "Succeed"]
    ELSE IF t.nofWinsB >= t.minGallop THEN toGallop(t)
    ELSE t) :
    t \in {[s EXCEPT !.work = [@ EXCEPT ![s.dest + 1] = s.work[s.cursor + 1]],
                         !.dest = @ + 1, !.cursor = @ + 1, !.nofWinsB = @ + 1,
                         !.lengthB = @ - 1, !.nofWinsA = 0]}} : TRUE)
    ELSE (CHOOSE out \in {(
    IF t.lengthA = 1 THEN [t EXCEPT !.at = "CopyB"]
    ELSE IF t.nofWinsA >= t.minGallop THEN toGallop(t)
    ELSE t) :
    t \in {[s EXCEPT !.work = [@ EXCEPT ![s.dest + 1] = s.temp[s.cursorTemp + 1]],
                         !.dest = @ + 1, !.cursorTemp = @ + 1, !.nofWinsA = @ + 1,
                         !.lengthA = @ - 1, !.nofWinsB = 0]}} : TRUE)

\* the second half of a turn of MergeLow's galloping loop: an element of B,
\* the elements of B that GallopLeft finds below the next of A, that element
lowGallopB(s) ==
    (CHOOSE out \in {(
        IF s2.lengthB = 0 THEN [s2 EXCEPT !.at = "Succeed"]
        ELSE
        (CHOOSE out \in {(
            (CHOOSE out \in {(
                IF nB > 0 /\ s3.lengthB = 0 THEN [s3 EXCEPT !.at = "Succeed"]
                ELSE
                (CHOOSE out \in {(
                    IF s4.lengthA = 1 THEN [s4 EXCEPT !.at = "CopyB"] ELSE s4) :
                    s4 \in {[s3 EXCEPT !.work = [@ EXCEPT ![s3.dest + 1] = s3.temp[s3.cursorTemp + 1]],
                              !.dest = @ + 1, !.cursorTemp = @ + 1, !.lengthA = @ - 1]}} : TRUE)) :
                s3 \in {[s2 EXCEPT !.nofWinsB = nB,
                          !.work = IF nB > 0 THEN copyRange(s2.work, s2.cursor, s2.work, s2.dest, nB)
                                   ELSE @,
                          !.dest = @ + nB, !.cursor = @ + nB, !.lengthB = @ - nB]}} : TRUE)) :
            nB \in {gallopLeft(s2.work, s2.temp[s2.cursorTemp + 1], s2.cursor, s2.lengthB, 0)}} : TRUE)) :
        s2 \in {[s EXCEPT !.work = [@ EXCEPT ![s.dest + 1] = s.work[s.cursor + 1]],
                              !.dest = @ + 1, !.cursor = @ + 1, !.lengthB = @ - 1]}} : TRUE)

\* one turn of MergeLow's galloping loop, or the end of the loop: the
\* elements of A that GallopRight finds not above the next of B come first
lowGallop(s) ==
    IF ~(s.nofWinsA >= 7 \/ s.nofWinsB >= 7 \/ s.first)
    THEN [s EXCEPT !.minGallop = @ + 1, !.at = "one", !.nofWinsA = 0, !.nofWinsB = 0]
    ELSE
    (CHOOSE out \in {(
        (CHOOSE out \in {(
            IF nA > 0 /\ s1.lengthA = 1 THEN [s1 EXCEPT !.at = "CopyB"]
            ELSE IF nA > 0 /\ s1.lengthA = 0 THEN [s1 EXCEPT !.at = "Succeed"]
            ELSE lowGallopB(s1)) :
            s1 \in {[s EXCEPT !.first = FALSE, !.minGallop = Max(1, @ - 1), !.nofWinsA = nA,
                      !.work = IF nA > 0 THEN copyRange(s.temp, s.cursorTemp, s.work, s.dest, nA)
                               ELSE @,
                      !.dest = @ + nA, !.cursorTemp = @ + nA, !.lengthA = @ - nA]}} : TRUE)) :
        nA \in {gallopRight(s.temp, s.work[s.cursor + 1], s.cursorTemp, s.lengthA, 0)}} : TRUE)

\* the exit labels of MergeLow: Succeed copies what is left of A; CopyB moves
\* what is left of B and puts the last element of A behind it
mergeLowEnd(s) ==
    IF s.at = "Succeed"
    THEN (IF s.lengthA > 0
          THEN copyRange(s.temp, s.cursorTemp, s.work, s.dest, s.lengthA)
          ELSE s.work)
    ELSE (CHOOSE out \in {(
             [moved EXCEPT ![s.dest + s.lengthB + 1] = s.temp[s.cursorTemp + 1]]) :
             moved \in {copyRange(s.work, s.cursor, s.work, s.dest, s.lengthB)}} : TRUE)

RECURSIVE mergeLowFrom(_)
mergeLowFrom(s) ==
    IF s.at \in {"Succeed", "CopyB"}
    THEN [work |-> mergeLowEnd(s), minGallop |-> s.minGallop]
    ELSE (CHOOSE out \in {( mergeLowFrom(next)) :
             next \in {IF s.at = "one" THEN lowOne(s) ELSE lowGallop(s)}} : TRUE)

\* MergeLow(baseA, lengthA, baseB, lengthB): run A is copied out and the runs
\* are merged from the left
mergeLow(work, minGallop, baseA, lengthA, baseB, lengthB) ==
    (CHOOSE out \in {( mergeLowFrom(s)) :
        s \in {[work |-> [work EXCEPT ![baseA + 1] = work[baseB + 1]],
                temp |-> SubSeq(work, baseA + 1, baseA + lengthA),
                baseA |-> baseA,
                dest |-> baseA + 1, cursorTemp |-> 0, cursor |-> baseB + 1,
                lengthA |-> lengthA, lengthB |-> lengthB - 1,
                minGallop |-> minGallop, nofWinsA |-> 0, nofWinsB |-> 0,
                first |-> FALSE,
                at |-> IF lengthB - 1 = 0 THEN "Succeed"
                       ELSE IF lengthA = 1 THEN "CopyB" ELSE "one"]}} : TRUE)

\* one turn of MergeHigh's one-at-a-time loop
highOne(s) ==
    IF compareNumbers(s.temp[s.cursorTemp + 1], s.work[s.cursor + 1]) < 0
    THEN (CHOOSE out \in {(
    IF t.lengthA = 0 THEN [t EXCEPT !.at = "Succeed"]
    ELSE IF t.nofWinsA >= t.minGallop THEN toGallop(t)
    ELSE t) :
    t \in {[s EXCEPT !.work = [@ EXCEPT ![s.dest + 1] = s.work[s.cursor + 1]],
                         !.dest = @ - 1, !.cursor = @ - 1, !.nofWinsA = @ + 1,
                         !.lengthA = @ - 1, !.nofWinsB = 0]}} : TRUE)
    ELSE (CHOOSE out \in {(
    IF t.lengthB = 1 THEN [t EXCEPT !.at = "CopyA"]
    ELSE IF t.nofWinsB >= t.minGallop THEN toGallop(t)
    ELSE t) :
    t \in {[s EXCEPT !.work = [@ EXCEPT ![s.dest + 1] = s.temp[s.cursorTemp + 1]],
                         !.dest = @ - 1, !.cursorTemp = @ - 1, !.nofWinsB = @ + 1,
                         !.lengthB = @ - 1, !.nofWinsA = 0]}} : TRUE)

\* the second half of a turn of MergeHigh's galloping loop: an element of B,
\* the elements of B that GallopLeft finds not below the last of A, that
\* element
highGallopB(s) ==
    (CHOOSE out \in {(
        IF s2.lengthB = 1 THEN [s2 EXCEPT !.at = "CopyA"]
        ELSE
        (CHOOSE out \in {(
            (CHOOSE out \in {(
                (CHOOSE out \in {(
                    IF nB > 0 /\ s3.lengthB = 1 THEN [s3 EXCEPT !.at = "CopyA"]
                    ELSE IF nB > 0 /\ s3.lengthB = 0 THEN [s3 EXCEPT !.at = "Succeed"]
                    ELSE
                    (CHOOSE out \in {(
                        IF s4.lengthA = 0 THEN [s4 EXCEPT !.at = "Succeed"] ELSE s4) :
                        s4 \in {[s3 EXCEPT !.work = [@ EXCEPT ![s3.dest + 1] = s3.work[s3.cursor + 1]],
                                  !.dest = @ - 1, !.cursor = @ - 1, !.lengthA = @ - 1]}} : TRUE)) :
                    s3 \in {[s2 EXCEPT !.nofWinsB = nB,
                              !.work = IF nB > 0
                                       THEN copyRange(s2.temp, s2.cursorTemp - nB + 1, s2.work,
                                                      s2.dest - nB + 1, nB)
                                       ELSE @,
                              !.dest = @ - nB, !.cursorTemp = @ - nB, !.lengthB = @ - nB]}} : TRUE)) :
                nB \in {s2.lengthB - k}} : TRUE)) :
            k \in {gallopLeft(s2.temp, s2.work[s2.cursor + 1], 0, s2.lengthB, s2.lengthB - 1)}} : TRUE)) :
        s2 \in {[s EXCEPT !.work = [@ EXCEPT ![s.dest + 1] = s.temp[s.cursorTemp + 1]],
                              !.dest = @ - 1, !.cursorTemp = @ - 1, !.lengthB = @ - 1]}} : TRUE)

\* one turn of MergeHigh's galloping loop, or the end of the loop: the
\* elements of A that GallopRight finds above the last of B go last
highGallop(s) ==
    IF ~(s.nofWinsA >= 7 \/ s.nofWinsB >= 7 \/ s.first)
    THEN [s EXCEPT !.minGallop = @ + 1, !.at = "one", !.nofWinsA = 0, !.nofWinsB = 0]
    ELSE
    (CHOOSE out \in {(
        (CHOOSE out \in {(
            (CHOOSE out \in {(
                IF nA > 0 /\ s1.lengthA = 0 THEN [s1 EXCEPT !.at = "Succeed"]
                ELSE highGallopB(s1)) :
                s1 \in {[s EXCEPT !.first = FALSE, !.minGallop = Max(1, @ - 1), !.nofWinsA = nA,
                          !.work = IF nA > 0
                                   THEN copyRange(s.work, s.cursor - nA + 1, s.work,
                                                  s.dest - nA + 1, nA)
                                   ELSE @,
                          !.dest = @ - nA, !.cursor = @ - nA, !.lengthA = @ - nA]}} : TRUE)) :
            nA \in {s.lengthA - k}} : TRUE)) :
        k \in {gallopRight(s.work, s.temp[s.cursorTemp + 1], s.baseA, s.lengthA, s.lengthA - 1)}} : TRUE)

\* the exit labels of MergeHigh: Succeed copies what is left of B; CopyA moves
\* what is left of A and puts the first element of B before it
mergeHighEnd(s) ==
    IF s.at = "Succeed"
    THEN (IF s.lengthB > 0
          THEN copyRange(s.temp, 0, s.work, s.dest - (s.lengthB - 1), s.lengthB)
          ELSE s.work)
    ELSE (CHOOSE out \in {(
             [moved EXCEPT ![s.dest - s.lengthA + 1] = s.temp[s.cursorTemp + 1]]) :
             moved \in {copyRange(s.work, s.cursor - s.lengthA + 1, s.work,
                                  s.dest - s.lengthA + 1, s.lengthA)}} : TRUE)

RECURSIVE mergeHighFrom(_)
mergeHighFrom(s) ==
    IF s.at \in {"Succeed", "CopyA"}
    THEN [work |-> mergeHighEnd(s), minGallop |-> s.minGallop]
    ELSE (CHOOSE out \in {( mergeHighFrom(next)) :
             next \in {IF s.at = "one" THEN highOne(s) ELSE highGallop(s)}} : TRUE)

\* MergeHigh(baseA, lengthA, baseB, lengthB): run B is copied out and the runs
\* are merged from the right
mergeHigh(work, minGallop, baseA, lengthA, baseB, lengthB) ==
    (CHOOSE out \in {( mergeHighFrom(s)) :
        s \in {[work |-> [work EXCEPT ![baseB + lengthB] = work[baseA + lengthA]],
                temp |-> SubSeq(work, baseB + 1, baseB + lengthB),
                baseA |-> baseA,
                dest |-> baseB + lengthB - 2, cursorTemp |-> lengthB - 1,
                cursor |-> baseA + lengthA - 2,
                lengthA |-> lengthA - 1, lengthB |-> lengthB,
                minGallop |-> minGallop, nofWinsA |-> 0, nofWinsB |-> 0,
                first |-> FALSE,
                at |-> IF lengthA - 1 = 0 THEN "Succeed"
                       ELSE IF lengthB = 1 THEN "CopyA" ELSE "one"]}} : TRUE)

(* The pending runs and their merges.  The sort's state: the work array, the  *)
(* stack of pending runs (base and length each) and the gallop threshold.     *)

\* MergeAt(i): the runs i and i + 1 of the stack are merged. The elements of
\* A that are not above the first of B, and those of B that are not below the
\* last of A, are in place already
mergeAt(st, i) ==
    (CHOOSE out \in {(
        (CHOOSE out \in {(
            (CHOOSE out \in {(
                (CHOOSE out \in {(
                    IF a.length - k = 0 THEN [st EXCEPT !.runs = runs]
                    ELSE
                    (CHOOSE out \in {(
                        IF lengthB = 0 THEN [st EXCEPT !.runs = runs]
                        ELSE
                        (CHOOSE out \in {(
                            [work |-> m.work, runs |-> runs, minGallop |-> m.minGallop]) :
                            m \in {IF a.length - k <= lengthB
                                  THEN mergeLow(st.work, st.minGallop, a.base + k, a.length - k,
                                                b.base, lengthB)
                                  ELSE mergeHigh(st.work, st.minGallop, a.base + k, a.length - k,
                                                 b.base, lengthB)}} : TRUE)) :
                        lengthB \in {gallopLeft(st.work, st.work[a.base + a.length], b.base, b.length,
                                           b.length - 1)}} : TRUE)) :
                    k \in {gallopRight(st.work, st.work[b.base + 1], a.base, a.length, 0)}} : TRUE)) :
                runs \in {SubSeq(st.runs, 1, i)
                        \o <<[base |-> a.base, length |-> a.length + b.length]>>
                        \o SubSeq(st.runs, i + 3, Len(st.runs))}} : TRUE)) :
            b \in {st.runs[i + 2]}} : TRUE)) :
        a \in {st.runs[i + 1]}} : TRUE)

\* RunInvariantEstablished(pendingRuns, n)
runInvariantEstablished(runs, n) ==
    IF n < 2 THEN TRUE
    ELSE runs[n - 1].length > runs[n].length + runs[n + 1].length

RECURSIVE mergeCollapse(_)
\* MergeCollapse: runs are merged until the lengths on the stack grow fast
\* enough from the top down
mergeCollapse(st) ==
    IF ~(Len(st.runs) > 1) THEN st
    ELSE (CHOOSE out \in {(
            IF ~runInvariantEstablished(st.runs, n + 1)
                  \/ ~runInvariantEstablished(st.runs, n)
            THEN (CHOOSE out \in {( mergeCollapse(next)) :
                     next \in {mergeAt(st, IF st.runs[n].length < st.runs[n + 2].length
                                           THEN n - 1 ELSE n)}} : TRUE)
            ELSE IF st.runs[n + 1].length <= st.runs[n + 2].length
            THEN (CHOOSE out \in {( mergeCollapse(next)) :
                     next \in {mergeAt(st, n)}} : TRUE)
            ELSE st) :
            n \in {Len(st.runs) - 2}} : TRUE)

RECURSIVE mergeForceCollapse(_)
\* MergeForceCollapse: all pending runs are merged
mergeForceCollapse(st) ==
    IF ~(Len(st.runs) > 1) THEN st
    ELSE (CHOOSE out \in {(
            (CHOOSE out \in {( mergeForceCollapse(next)) :
                next \in {mergeAt(st,
                            IF n > 0 /\ st.runs[n].length < st.runs[n + 2].length
                            THEN n - 1 ELSE n)}} : TRUE)) :
            n \in {Len(st.runs) - 2}} : TRUE)

RECURSIVE sortRuns(_, _, _, _)
\* the loop of ArrayTimSortImpl: the next run is counted, brought to the
\* minimum run length by binary insertion when it is shorter, pushed, and the
\* pending runs are merged as far as MergeCollapse asks
sortRuns(st, low, remaining, minRunLength) ==
    IF remaining = 0 THEN st
    ELSE (CHOOSE out \in {(
            (CHOOSE out \in {(
                (CHOOSE out \in {(
                    (CHOOSE out \in {(
                         sortRuns(next, low + length, remaining - length,
                                  minRunLength)) :
                       next \in {mergeCollapse(
                                   [st EXCEPT !.work = work,
                                              !.runs = Append(@, [base |-> low,
                                                                  length |-> length])])}}
                                   : TRUE)) :
                   work \in {IF run.runLength < minRunLength
                             THEN binaryInsertionSort(run.work, low,
                                                      low + run.runLength, low + length)
                             ELSE run.work}} : TRUE)) :
               length \in {IF run.runLength < minRunLength
                           THEN Min(minRunLength, remaining)
                           ELSE run.runLength}} : TRUE)) :
            run \in {countAndMakeRun(st.work, low, low + remaining)}} : TRUE)

\* [...values].sort((a, b) => a - b).  When no difference is NaN this is the
\* ascending order, equal values in their given order.  When one is, the
\* order is the one the engine's routine leaves: an array of fewer than 64
\* elements is a single run (its leading run is counted and made ascending,
\* the elements after it are put in place by binary insertion); a longer one
\* is cut into runs of the minimum run length or more, which are merged.
sortNumbers(values) ==
    IF Len(values) < 2 THEN values
    ELSE (CHOOSE out \in {( mergeForceCollapse(st).work) :
             st \in {sortRuns([work |-> values, runs |-> <<>>, minGallop |-> 7],
                              0, Len(values),
                              computeMinRunLength(Len(values)))}} : TRUE)

\* the statistics of the sorted values, their average known
statisticsOf(sortedValues, average) ==
    [min |-> sortedValues[1],
     max |-> sortedValues[Len(sortedValues)],
     average |-> average,
     median |-> IF Len(sortedValues) % 2 = 0
                THEN numDiv(numAdd(sortedValues[Len(sortedValues) \div 2],
                                   sortedValues[(Len(sortedValues) \div 2) + 1]),
                            Number(2))
                ELSE sortedValues[(Len(sortedValues) \div 2) + 1],
     standardDeviation |->
        numSqrt(numDiv(
            sumFrom([i \in 1..Len(sortedValues) |->
                        (CHOOSE out \in {( numMul(d, d)) : d \in {numSub(sortedValues[i], average)}} : TRUE)],
                    1, Zero(FALSE)),
            Number(Len(sortedValues))))]

calculateStatistics(values) ==
    IF Len(values) = 0
    THEN [min |-> Zero(FALSE), max |-> Zero(FALSE), average |-> Zero(FALSE),
          median |-> Zero(FALSE), standardDeviation |-> Zero(FALSE)]
    ELSE (CHOOSE out \in {(
             (CHOOSE out \in {( statisticsOf(sortedValues, average)) :
                   average \in {numDiv(sumFrom(sortedValues, 1, Zero(FALSE)),
                          Number(Len(sortedValues)))}} : TRUE)) :
             sortedValues \in {sortNumbers(values)}} : TRUE)

----------------------------------------------------------------------------
(* anomalyDetection *)

MAX_HISTORY_SIZE == 100

\* DEFAULT_THRESHOLDS[dataType] || DEFAULT_THRESHOLDS.temperature, as spread
\* into thresholds: an own entry; for a name found on Object.prototype a
\* function or object that spreads to no property at all; the temperature
\* entry for every other type
DEFAULT_THRESHOLDS(dataType) ==
    IF dataType = Str_humidity
    THEN [min |-> Number(20), max |-> Number(95), rateOfChangeWarning |-> Number(15),
          rateOfChangeAlert |-> Number(30), normalRange |-> <<Number(40), Number(80)>>]
    ELSE IF dataType = Str_soil_moisture
    THEN [min |-> Number(10), max |-> Number(100), rateOfChangeWarning |-> Number(20),
          rateOfChangeAlert |-> Number(40), normalRange |-> <<Number(30), Number(70)>>]
    ELSE IF dataType = Str_light
    THEN [min |-> Number(0), max |-> Number(100000), rateOfChangeWarning |-> Number(20000),
          rateOfChangeAlert |-> Number(50000),
          normalRange |-> <<Number(500), Number(10000)>>]
    ELSE IF dataType = Str_co2
    THEN [min |-> Number(300), max |-> Number(5000), rateOfChangeWarning |-> Number(500),
          rateOfChangeAlert |-> Number(1000),
          normalRange |-> <<Number(400), Number(1200)>>]
    ELSE IF dataType \in ObjectPrototypeNames
    THEN [name \in {} |-> NaN]
    \* 'temperature', and "|| DEFAULT_THRESHOLDS.temperature" for every other type
    ELSE [min |-> Number(5), max |-> Number(40), rateOfChangeWarning |-> Number(5),
          rateOfChangeAlert |-> Number(10), normalRange |-> <<Number(15), Number(30)>>]

\* no customThresholds argument
NoThresholds == [name \in {} |-> NaN]

\* { ...baseThresholds, ...customThresholds }: the fields of customThresholds,
\* and those of the defaults it does not have
mergeThresholds(dataType, customThresholds) ==
    customThresholds @@ DEFAULT_THRESHOLDS(dataType)

\* thresholds.min and the like in a comparison: undefined compares as NaN
thresholdOf(thresholds, name) ==
    IF name \in DOMAIN thresholds THEN thresholds[name] ELSE NaN

\* parsedData.value !== undefined ? parsedData.value : parsedData[dataType] || 0
anomalyValue(parsedData, dataType) ==
    IF getField(parsedData, Str_value).t # "undefined"
    THEN getField(parsedData, Str_value)
    ELSE IF truthy(getField(parsedData, dataType))
    THEN getField(parsedData, dataType)
    ELSE NumberValue(Zero(FALSE))

Checked(found) == [threw |-> FALSE, found |-> found]
TypeError == [threw |-> TRUE, found |-> <<>>]

\* the if / else-if chain on the thresholds, for the number x the value
\* compares as: at most one entry; thresholds.normalRange[0] throws when the
\* chain gets to it and there is no normalRange
boundsAnomalies(x, thresholds) ==
    IF numLess(x, thresholdOf(thresholds, "min")) THEN Checked(<<"below_minimum">>)
    ELSE IF numLess(thresholdOf(thresholds, "max"), x) THEN Checked(<<"above_maximum">>)
    ELSE IF "normalRange" \notin DOMAIN thresholds THEN TypeError
    ELSE IF numLess(x, thresholds.normalRange[1]) THEN Checked(<<"below_normal">>)
    ELSE IF numLess(thresholds.normalRange[2], x) THEN Checked(<<"above_normal">>)
    ELSE Checked(<<>>)

boundsSeverity(found) ==
    IF found = <<>> THEN "info"
    ELSE IF found[1] \in {"below_minimum", "above_maximum"} THEN "error"
    ELSE "warning"

deviceKeyOf(reading) == reading.deviceId \o <<Chars.dash>> \o reading.dataType

\* the push without the slice
pushHistory_unbounded(hist, deviceKey, reading) ==
    (deviceKey :> Append(IF deviceKey \in DOMAIN hist THEN hist[deviceKey] ELSE <<>>,
                         reading)) @@ hist

\* historicalReadings[deviceKey].push(...) and the slice(-MAX_HISTORY_SIZE)
pushHistory(hist, deviceKey, reading) ==
    (CHOOSE out \in {(
        (deviceKey :> IF Len(pushed) > MAX_HISTORY_SIZE
                      THEN SubSeq(pushed, Len(pushed) - MAX_HISTORY_SIZE + 1, Len(pushed))
                      ELSE pushed) @@ hist) :
        pushed \in {Append(IF deviceKey \in DOMAIN hist THEN hist[deviceKey] ELSE <<>>, reading)}} : TRUE)

\* the two comparisons of changeRate with the thresholds
rateFound(changeRate, thresholds) ==
    IF numLess(thresholdOf(thresholds, "rateOfChangeAlert"), changeRate)
    THEN <<"rapid_change">>
    ELSE IF numLess(thresholdOf(thresholds, "rateOfChangeWarning"), changeRate)
    THEN <<"fast_change">>
    ELSE <<>>

\* the rate-of-change check against the reading before the one just pushed;
\* x is the number the value of the reading compares as
rateAnomalies(reading, x, history, thresholds) ==
    IF ~(Len(history) > 1) THEN Checked(<<>>)
    ELSE (CHOOSE out \in {(
           (CHOOSE out \in {(
             IF prevData.t = "SyntaxError" \/ prevData.t = "null" THEN TypeError
             ELSE (CHOOSE out \in {(
                    (CHOOSE out \in {(
                      IF ~numLess(Zero(FALSE), timeDiffHours) THEN Checked(<<>>)
                      ELSE IF toNumberThrows(prevValue) THEN TypeError
                      ELSE (CHOOSE out \in {(
                                    Checked(rateFound(changeRate, thresholds))) :
                                 changeRate \in {numDiv(numAbs(numSub(x, toNumber(prevValue))),
                                        timeDiffHours)}} : TRUE)) :
                      timeDiffHours \in {numDiv(Number(reading.timestamp - previous.timestamp),
                             Number(HourMs))}} : TRUE)) :
                    prevValue \in {anomalyValue(prevData, previous.dataType)}} : TRUE)) :
             prevData \in {JsonParse(previous.data)}} : TRUE)) :
           previous \in {history[Len(history) - 1]}} : TRUE)

NoReport == [isNull |-> TRUE, anomalies |-> <<>>, severity |-> "info"]

\* the report of the catch block
ParsingError == [isNull |-> FALSE, anomalies |-> <<"parsing_error">>, severity |-> "error"]

\* the report for the anomalies found by the two checks, or null
reportOf(bounds, rate) ==
    IF bounds \o rate = <<>> THEN NoReport
    ELSE [isNull    |-> FALSE,
          anomalies |-> bounds \o rate,
          severity  |-> IF boundsSeverity(bounds) # "info" \/ rate = <<>>
                        THEN boundsSeverity(bounds)
                        ELSE IF rate[1] = "rapid_change" THEN "error" ELSE "warning"]

\* detectAnomaly from the bounds check on: value is what was extracted from
\* the parsed data and converts to a number without throwing
checkValue(reading, x, thresholds, hist) ==
    (CHOOSE out \in {(
        IF bounds.threw THEN [report |-> ParsingError, hist |-> hist]
        ELSE (CHOOSE out \in {(
               (CHOOSE out \in {(
                   [report |-> IF rate.threw THEN ParsingError
                               ELSE reportOf(bounds.found, rate.found),
                    hist |-> hist1]) :
                   rate \in {rateAnomalies(reading, x, hist1[deviceKeyOf(reading)], thresholds)}} : TRUE)) :
               hist1 \in {pushHistory(hist, deviceKeyOf(reading), reading)}} : TRUE)) :
        bounds \in {boundsAnomalies(x, thresholds)}} : TRUE)

\* detectAnomaly(reading, customThresholds) on the cache hist: the report (or
\* null) and the cache after.  Whatever throws in the try block gives the
\* report of the catch block: JSON.parse, a property of null, the conversion
\* of the value to a number and normalRange[0] of undefined throw before the
\* cache is reached
detectAnomaly(reading, customThresholds, hist) ==
    (CHOOSE out \in {(
      (CHOOSE out \in {(
        IF parsedData.t = "SyntaxError" \/ parsedData.t = "null"
        THEN [report |-> ParsingError, hist |-> hist]
        ELSE (CHOOSE out \in {(
               IF toNumberThrows(value) THEN [report |-> ParsingError, hist |-> hist]
               ELSE (CHOOSE out \in {( checkValue(reading, x, thresholds, hist)) :
                          x \in {toNumber(value)}} : TRUE)) :
               value \in {anomalyValue(parsedData, reading.dataType)}} : TRUE)) :
        parsedData \in {JsonParse(reading.data)}} : TRUE)) :
      thresholds \in {mergeThresholds(reading.dataType, customThresholds)}} : TRUE)

\* customThresholds?.[reading.dataType]
customFor(customThresholds, dataType) ==
    IF dataType \in DOMAIN customThresholds THEN customThresholds[dataType]
    ELSE NoThresholds

RECURSIVE detectBatchFrom(_, _, _, _, _)
detectBatchFrom(rs, customThresholds, i, found, hist) ==
    IF i > Len(rs) THEN [anomalies |-> found, hist |-> hist]
    ELSE (CHOOSE out \in {(
                  (CHOOSE out \in {(
                            detectBatchFrom(rs, customThresholds, i + 1, all, one.hist)) :
                        all \in {IF one.report.isNull THEN found ELSE Append(found, one.report)}} : TRUE)) :
               one \in {detectAnomaly(rs[i], customFor(customThresholds, rs[i].dataType), hist)}} : TRUE)

\* detectBatchAnomalies(readings, customThresholds): the reports and the
\* cache after
detectBatchAnomalies(rs, customThresholds, hist) ==
    detectBatchFrom(rs, customThresholds, 1, <<>>, hist)

----------------------------------------------------------------------------
(* dataAggregation.aggregateSensorData and prepareSensorBatch *)

\* `${reading.deviceId}-${reading.dataType}`
groupKey(reading) == reading.deviceId \o <<Chars.dash>> \o reading.dataType

RECURSIVE splitFrom(_, _, _, _)
splitFrom(s, sep, i, current) ==
    IF i > Len(s) THEN <<current>>
    ELSE IF s[i] = sep THEN <<current>> \o splitFrom(s, sep, i + 1, <<>>)
    ELSE splitFrom(s, sep, i + 1, Append(current, s[i]))

\* s.split(sep) for a one-character separator
split(s, sep) == splitFrom(s, sep, 1, <<>>)

\* const [deviceId, dataType] = key.split('-')
keyFields(key, group) ==
    LET parts == split(key, Chars.dash)
    IN [deviceId |-> parts[1], dataType |-> parts[2]]

RECURSIVE groupKeysFrom(_, _, _)
\* the keys of groupedReadings in insertion order
groupKeysFrom(rs, i, keys) ==
    IF i > Len(rs) THEN keys
    ELSE groupKeysFrom(rs, i + 1,
            IF \E k \in 1..Len(keys) : keys[k] = groupKey(rs[i])
            THEN keys ELSE Append(keys, groupKey(rs[i])))

groupKeys(rs) == groupKeysFrom(rs, 1, <<>>)

RECURSIVE groupFrom(_, _, _)
\* the array groupedReadings.get(key): the readings pushed under key, in input order
groupFrom(rs, key, i) ==
    IF i > Len(rs) THEN <<>>
    ELSE (IF groupKey(rs[i]) = key THEN <<rs[i]>> ELSE <<>>) \o groupFrom(rs, key, i + 1)

groupOf(rs, key) == groupFrom(rs, key, 1)

\* one step of a stable sort by timestamp: r goes after every element that
\* does not compare greater
insertByTimestamp(sorted, r) ==
    LET k == Cardinality({i \in 1..Len(sorted) : sorted[i].timestamp <= r.timestamp})
    IN SubSeq(sorted, 1, k) \o <<r>> \o SubSeq(sorted, k + 1, Len(sorted))

RECURSIVE sortByTimestampFrom(_, _, _)
sortByTimestampFrom(group, i, sorted) ==
    IF i > Len(group) THEN sorted
    ELSE (CHOOSE out \in {( sortByTimestampFrom(group, i + 1, next)) :
               next \in {insertByTimestamp(sorted, group[i])}} : TRUE)

sortByTimestamp_unsorted(group) == group

\* group.sort((a, b) => a.timestamp - b.timestamp)
sortByTimestamp(group) == sortByTimestampFrom(group, 1, <<>>)

\* reading.data is a string here, so it is passed on as it is
formatSensorData(reading) ==
    [deviceId |-> reading.deviceId, timestamp |-> reading.timestamp,
     data |-> reading.data, dataType |-> reading.dataType, location |-> reading.location]

RECURSIVE numericValuesFrom(_, _)
\* the samples that are not null, in group order
numericValuesFrom(samples, i) ==
    IF i > Len(samples) THEN <<>>
    ELSE (IF samples[i].some THEN <<samples[i].n>> ELSE <<>>)
         \o numericValuesFrom(samples, i + 1)

\* the aggregate of one group, sorted, with its statistics and the anomaly
\* reports found for it
aggregateOf(key, group, stats, found) ==
    [deviceId |-> keyFields(key, group).deviceId,
     dataType |-> keyFields(key, group).dataType,
     startTimestamp |-> group[1].timestamp,
     endTimestamp |-> group[Len(group)].timestamp,
     recordCount |-> Len(group),
     min |-> stats.min,
     max |-> stats.max,
     average |-> stats.average,
     medianValue |-> stats.median,
     standardDeviation |-> stats.standardDeviation,
     anomalyCount |-> Len(found.anomalies),
     merkleRoot |->
        serviceGenerateMerkleTree([i \in 1..Len(group) |-> formatSensorData(group[i])]).merkleRoot]

\* the body of "for (const [key, group] of groupedReadings.entries())": the
\* group is sorted, then sampled, then checked for anomalies on the cache hist
aggregateGroup(key, unsorted, hist) ==
    (CHOOSE out \in {(
        (CHOOSE out \in {(
            IF \E i \in 1..Len(group) : samples[i].threw
            THEN [threw |-> TRUE, hist |-> hist, entry |-> <<>>]
            ELSE (CHOOSE out \in {(
                     [threw |-> FALSE,
                      hist  |-> found.hist,
                      entry |-> <<[key |-> key,
                                   value |-> aggregateOf(key, group,
                                       calculateStatistics(numericValuesFrom(samples, 1)),
                                       found)]>>]) :
                     found \in {detectBatchAnomalies(group, NoThresholds, hist)}} : TRUE)) :
            samples \in {<<>> \o [i \in 1..Len(group) |-> extractNumericValue(group[i])]}} : TRUE)) :
        group \in {sortByTimestamp(unsorted)}} : TRUE)

RECURSIVE aggregateFrom(_, _, _, _, _)
aggregateFrom(rs, keys, i, entries, hist) ==
    IF i > Len(keys) THEN [threw |-> FALSE, aggregates |-> entries, hist |-> hist]
    ELSE (CHOOSE out \in {(
                  IF one.threw THEN [threw |-> TRUE, aggregates |-> <<>>, hist |-> one.hist]
                  ELSE (CHOOSE out \in {( aggregateFrom(rs, keys, i + 1, all, one.hist)) :
                             all \in {entries \o one.entry}} : TRUE)) :
               one \in {aggregateGroup(keys[i], groupOf(rs, keys[i]), hist)}} : TRUE)

\* aggregateSensorData(readings) on the cache hist: the Map's entries in
\* insertion order, the cache after, and whether the call threw; the groups
\* are arrays of their own, so the caller's array stays as passed
aggregateSensorData(rs, hist) ==
    (CHOOSE out \in {( aggregateFrom(rs, keys, 1, <<>>, hist)) : keys \in {groupKeys(rs)}} : TRUE)

NoBatch == [merkleRoot |-> <<>>, proofs |-> <<>>]

AggregateSensorData(rs) ==
    /\ \E out \in {aggregateSensorData(rs, historicalReadings)} :
          /\ aggregates' = out.aggregates
          /\ historicalReadings' = out.hist
          /\ aggPc' = IF out.threw THEN "threw" ELSE "done"
    /\ argument' = rs
    /\ readings' = rs
    /\ calls' = calls + 1
    /\ UNCHANGED <<anomalies, sensorBatch, sample>>
    /\ UNCHANGED merkleVars
    /\ UNCHANGED chainVars
    /\ UNCHANGED appVars

DetectBatchAnomalies(rs, customThresholds) ==
    /\ \E out \in {detectBatchAnomalies(rs, customThresholds, historicalReadings)} :
          /\ anomalies' = out.anomalies
          /\ historicalReadings' = out.hist
    /\ aggPc' = "detected"
    /\ argument' = rs
    /\ readings' = rs
    /\ calls' = calls + 1
    /\ UNCHANGED <<aggregates, sensorBatch, sample>>
    /\ UNCHANGED merkleVars
    /\ UNCHANGED chainVars
    /\ UNCHANGED appVars

PrepareSensorBatch(rs) ==
    /\ IF Len(rs) = 0
       THEN \* generateMerkleTree throws before the cache is touched
            /\ aggPc' = "threw"
            /\ UNCHANGED <<historicalReadings, aggregates, anomalies, sensorBatch>>
       ELSE \E tree \in {serviceGenerateMerkleTree([i \in 1..Len(rs) |-> formatSensorData(rs[i])])},
               found \in {detectBatchAnomalies(rs, NoThresholds, historicalReadings)} :
             \E out \in {aggregateSensorData(rs, found.hist)} :
               /\ sensorBatch' = tree
               /\ anomalies' = found.anomalies
               /\ aggregates' = out.aggregates
               /\ historicalReadings' = out.hist
               /\ aggPc' = IF out.threw THEN "threw" ELSE "prepared"
    /\ argument' = rs
    /\ readings' = rs
    /\ calls' = calls + 1
    /\ UNCHANGED sample
    /\ UNCHANGED merkleVars
    /\ UNCHANGED chainVars
    /\ UNCHANGED appVars

----------------------------------------------------------------------------
(* One aggregateSensorData call on a freshly loaded module *)

MaxReadings == 3

RECURSIVE writtenMembers(_)
writtenMembers(members) ==
    IF members = <<>> THEN <<>>
    ELSE <<Chars.quote>> \o Head(members).key \o <<Chars.quote, Chars.colon>>
         \o Head(members).text
         \o (IF Len(members) > 1 THEN <<Chars.comma>> ELSE <<>>)
         \o writtenMembers(Tail(members))

\* a data text as a device wrote it: an object with the members in the order
\* given, each value written as the text given for it
writtenObject(members) == <<Chars.lbrace>> \o writtenMembers(members) \o <<Chars.rbrace>>

\* the text of an object with the one member "value", written as given
valueObject(text) == writtenObject(<<[key |-> Str_value, text |-> text]>>)

\* "x" in quotes
Text_x == <<Chars.quote>> \o Str_x \o <<Chars.quote>>

\* { "value": 20.5 }
Text_spaced == <<123, 32, 34, 118, 97, 108, 117, 101, 34, 58, 32, 50, 48, 46, 53, 32, 125>>

\* two (deviceId, dataType) pairs that share the key "device-001-temperature"
CollidingPairs ==
    {<<Str_device_001, Str_temperature>>, <<Str_device, Str_001_temperature>>}

\* a pair whose key no other pair has
PlainPairs == {<<Str_device, Str_temperature>>}

NumericText == valueObject(decimalDigits(20))

\* an object without a number
NumberlessText == writtenObject(<<[key |-> Str_b, text |-> Text_x]>>)

\* a number, an object without a number, a text that does not parse
AggDataTexts == {Text_spaced, NumberlessText, Str_bad}

\* the plain pair with every kind of data, the colliding pairs with numbers
AggReadings ==
    {[deviceId |-> p[1], timestamp |-> t, dataType |-> p[2], data |-> d,
      location |-> Str_field] :
        p \in PlainPairs, t \in {HourMs, 2 * HourMs}, d \in AggDataTexts}
    \cup
    {[deviceId |-> p[1], timestamp |-> t, dataType |-> p[2], data |-> NumericText,
      location |-> Str_field] :
        p \in CollidingPairs, t \in {HourMs, 2 * HourMs}}

AggReadingLists == UNION {[1..n -> AggReadings] : n \in 0..MaxReadings}

AggInit ==
    /\ MerkleIdle /\ ChainCallInit /\ AppIdle
    /\ readings \in AggReadingLists
    /\ argument = readings
    /\ historicalReadings = <<>>
    /\ aggregates = <<>>
    /\ anomalies = <<>>
    /\ sensorBatch = NoBatch
    /\ aggPc = "ready"
    /\ sample = NoSample
    /\ calls = 0

AggNext == aggPc = "ready" /\ AggregateSensorData(readings)

AggSpec == AggInit /\ [][AggNext]_vars

----------------------------------------------------------------------------
(* Several service calls on one module instance: the cache lives on *)

MaxCalls == 2

MaxHistReadings == 2

\* one device and type; in-range values an hour apart
HistReadings ==
    [deviceId : {Str_device}, timestamp : {HourMs, 2 * HourMs},
     dataType : {Str_temperature},
     data : {valueObject(decimalDigits(16)), valueObject(decimalDigits(29))},
     location : {Str_field}]

\* no customThresholds argument, and an alert rate of 20 for temperature
CustomThresholdMaps ==
    {NoThresholds, Str_temperature :> [rateOfChangeAlert |-> Number(20)]}

HistReadingLists == UNION {[1..n -> HistReadings] : n \in 0..MaxHistReadings}

HistInit == MerkleIdle /\ ChainCallInit /\ AppIdle /\ AggIdle

HistNext ==
    /\ calls < MaxCalls
    /\ \E rs \in HistReadingLists :
          \/ AggregateSensorData(rs)
          \/ \E customThresholds \in CustomThresholdMaps :
                DetectBatchAnomalies(rs, customThresholds)
          \/ PrepareSensorBatch(rs)

HistSpec == HistInit /\ [][HistNext]_vars

----------------------------------------------------------------------------
(* extractNumericValue over readings of every field layout *)

MaxFields == 2

FieldKeys == {Str_value, Str_temperature, Str_b, Str_2}

\* the values as written: 5, 7 and "x"
FieldValues == {decimalDigits(5), decimalDigits(7), Text_x}

FieldUniverse == [key : FieldKeys, text : FieldValues]

\* field lists without a repeated key
FieldLists ==
    {fs \in UNION {[1..n -> FieldUniverse] : n \in 0..MaxFields} :
        \A i, j \in 1..Len(fs) : i # j => fs[i].key # fs[j].key}

\* texts of the whole grammar, and texts JSON.parse rejects:
\*   {"value":-5}
\*   { "value": 20 }
\*   {"value":1e3}
\*   {"value":20.5}
\*   [5]
\*   {"a":{"value":1},"b":2}
\*   {"a":null,"b":3}
\*   true
\*   -5
\*   "5"
\*   {"value":20}\n
\*   {"value":"7","temperature":-0.5E+1}
\*   [[1],"2",3]
\*   {"value":01}
\*   {"b":1.}
SpecialTexts ==
    {<<123, 34, 118, 97, 108, 117, 101, 34, 58, 45, 53, 125>>,
     <<123, 32, 34, 118, 97, 108, 117, 101, 34, 58, 32, 50, 48, 32, 125>>,
     <<123, 34, 118, 97, 108, 117, 101, 34, 58, 49, 101, 51, 125>>,
     <<123, 34, 118, 97, 108, 117, 101, 34, 58, 50, 48, 46, 53, 125>>,
     <<91, 53, 93>>,
     <<123, 34, 97, 34, 58, 123, 34, 118, 97, 108, 117, 101, 34, 58, 49, 125, 44, 34, 98, 34, 58, 50, 125>>,
     <<123, 34, 97, 34, 58, 110, 117, 108, 108, 44, 34, 98, 34, 58, 51, 125>>,
     <<116, 114, 117, 101>>,
     <<45, 53>>,
     <<34, 53, 34>>,
     <<123, 34, 118, 97, 108, 117, 101, 34, 58, 50, 48, 125, 10>>,
     <<123, 34, 118, 97, 108, 117, 101, 34, 58, 34, 55, 34, 44, 34, 116, 101, 109, 112, 101, 114, 97, 116, 117, 114, 101, 34, 58, 45, 48, 46, 53, 69, 43, 49, 125>>,
     <<91, 91, 49, 93, 44, 34, 50, 34, 44, 51, 93>>,
     <<123, 34, 118, 97, 108, 117, 101, 34, 58, 48, 49, 125>>,
     <<123, 34, 98, 34, 58, 49, 46, 125>>}

DataTexts == {writtenObject(fs) : fs \in FieldLists} \cup SpecialTexts \cup {Str_null, Str_bad}

ExtractReadings ==
    [deviceId : {Str_device}, timestamp : {HourMs}, dataType : {Str_temperature, Str_humidity},
     data : DataTexts, location : {Str_field}]

ExtractInit ==
    /\ MerkleIdle /\ ChainCallInit /\ AppIdle
    /\ \E r \in ExtractReadings : readings = <<r>>
    /\ argument = readings
    /\ historicalReadings = <<>>
    /\ aggregates = <<>>
    /\ anomalies = <<>>
    /\ sensorBatch = [merkleRoot |-> <<>>, proofs |-> <<>>]
    /\ aggPc = "ready"
    /\ sample = NoSample
    /\ calls = 0

ExtractNumericValue ==
    /\ aggPc = "ready"
    /\ Len(readings) = 1
    /\ sample' = extractNumericValue(readings[1])
    /\ aggPc' = "extracted"
    /\ UNCHANGED <<readings, argument, historicalReadings, aggregates, anomalies,
                   sensorBatch, calls>>
    /\ UNCHANGED merkleVars
    /\ UNCHANGED chainVars
    /\ UNCHANGED appVars

ExtractNext == ExtractNumericValue

ExtractSpec == ExtractInit /\ [][ExtractNext]_vars

----------------------------------------------------------------------------
(* Properties of the tree builder, the proof generator and the verifier *)

\* generateMerkleTree has just returned; layers, root and proofs are final and
\* are not changed by the verifyProof calls that follow
Returned == pc = "done"

N == Len(records)

leafHash(r) == keccakRecord(r.deviceId, r.timestamp, r.data, r.dataType, r.location)

\* pairHash(a, b) = hash(sort(a,b)[0] ++ sort(a,b)[1])
PairHash(a, b) == IF LexLess(b, a) THEN keccakPair(b, a) ELSE keccakPair(a, b)

RECURSIVE CeilLog2(_)
CeilLog2(n) == IF n <= 1 THEN 0 ELSE 1 + CeilLog2((n + 1) \div 2)

IsPowerOfTwo(n) == \E e \in 0..n : 2^e = n

RECURSIVE ProofRule(_, _, _)
\* the proof of 0-based leaf index i over layers 1..k: at layer m the index is
\* floor(i / 2^(m-1)) and the sibling is that index with its lowest bit flipped
ProofRule(lys, i, k) ==
    IF k = 0 THEN <<>>
    ELSE LET idx == i \div (2^(k - 1))
             sib == IF idx % 2 = 0 THEN idx + 1 ELSE idx - 1
         IN ProofRule(lys, i, k - 1) \o
            (IF sib >= 0 /\ sib < Len(lys[k]) THEN <<lys[k][sib + 1]>> ELSE <<>>)

\* C1: round-trip inclusion: every leaf verifies with its own proof against the
\* root returned by generateMerkleTree, for every non-empty record list.
C1_RoundTrip == (pc = "verified") => vresult

\* verifyRecord is asked about record id, stored from the reading the client
\* holds, with the root built over the held readings, registered by
\* createBatch, and the proof of that reading
VerifiesReading(id) ==
    /\ pc = "done"
    /\ id < Len(records)
    /\ id < recordCounter
    /\ merkleRoot \in verifiedMerkleRoots
    /\ VerifyRecord(id, merkleRoot, proofs[id + 1])

\* C2: cross-context consistency: for a record stored with storeData whose
\* batch root was built off-chain from the reading the client holds for it,
\* the leaf computed off-chain equals the record's on-chain dataHash, and
\* verifyRecord with the registered root and the proof of the record returns
\* true.
C2_CrossContext ==
    [][\A id \in 0..(MaxChainRecords - 1) :
          VerifiesReading(id) =>
              /\ leafHash(records[id + 1]) = sensorRecords[id + 1].dataHash
              /\ lastCall'.result = "true"]_vars

\* the hash schemes agree: when the reading carries the timestamp of the block
\* its record was stored in, and the tree has one or two leaves, the leaf is
\* the dataHash and the record verifies
HashSchemesAgree ==
    [][\A id \in 0..(MaxChainRecords - 1) :
          (/\ VerifiesReading(id)
           /\ \A k \in 1..Len(records) :
                 k <= recordCounter /\ records[k].timestamp = sensorRecords[k].timestamp)
          => /\ leafHash(records[id + 1]) = sensorRecords[id + 1].dataHash
             /\ lastCall'.result = "true"]_vars

\* C3: the pairwise hash is commutative, in MerkleTreeUtils.hashNode and in the
\* inline pair hash of services/merkleTree.
C3_Commutative ==
    pc \in {"build", "done"} =>
      \A a \in DigestsOf(layers), b \in DigestsOf(layers) :
        /\ hashNode(a, b) = hashNode(b, a)
        /\ servicePairHash(a, b) = servicePairHash(b, a)

\* a pair that arrives in descending order was hashed in ascending order
C3_Witness ==
    /\ pc = "done"
    /\ \E k \in 1..(Len(layers) - 1) : \E j \in 1..(Len(layers[k]) \div 2) :
          /\ LexLess(layers[k][2 * j], layers[k][2 * j - 1])
          /\ layers[k + 1][j] = keccakPair(layers[k][2 * j], layers[k][2 * j - 1])

\* C4: layer 0 is the leaves in input order; every element of layer k+1 is the
\* pair hash of elements 2j and 2j+1 of layer k, or of element 2j with itself
\* when 2j+1 does not exist; no element is dropped.
C4_BuilderStep ==
    pc \in {"build", "done"} =>
      /\ layers[1] = [i \in 1..N |-> leafHash(records[i])]
      /\ \A k \in 1..(Len(layers) - 1) :
            /\ 2 * Len(layers[k + 1]) >= Len(layers[k])
            /\ \A j \in 0..(Len(layers[k + 1]) - 1) :
                  /\ 2 * j < Len(layers[k])
                  /\ layers[k + 1][j + 1] =
                        IF 2 * j + 1 < Len(layers[k])
                        THEN PairHash(layers[k][2 * j + 1], layers[k][2 * j + 2])
                        ELSE PairHash(layers[k][2 * j + 1], layers[k][2 * j + 1])
      /\ (Returned /\ N = 4) =>
            /\ layers[2] = <<PairHash(layers[1][1], layers[1][2]),
                             PairHash(layers[1][3], layers[1][4])>>
            /\ merkleRoot = PairHash(layers[2][1], layers[2][2])

\* five leaves: the last one is paired with itself on the way up
C4_Witness ==
    /\ pc = "done"
    /\ N = 5
    /\ layers[2][3] = PairHash(layers[1][5], layers[1][5])
    /\ layers[1][1] # layers[1][2]

\* C5: consecutive layers satisfy len(next) = ceil(len(current) / 2) and the
\* last layer of a finished build has exactly one element.
C5_LayerSizes ==
    pc \in {"build", "done"} =>
      /\ \A k \in 1..(Len(layers) - 1) :
            Len(layers[k + 1]) = (Len(layers[k]) \div 2) + (Len(layers[k]) % 2)
      /\ Returned => Len(Last(layers)) = 1

C5_Witness ==
    /\ pc = "done"
    /\ Len(layers) = 4
    /\ Len(layers[1]) = 5 /\ Len(layers[2]) = 3 /\ Len(layers[3]) = 2

\* C6: proofs[i] is the walk from layer 0 up to the layer below the root that
\* appends the element at index idx XOR 1 exactly when it is in bounds and then
\* halves idx; 4 leaves: proof of L2 is [L3, layer1[0]]; 5 leaves: the proof of
\* L4 has no entry for layer 0.
C6_ProofRule ==
    Returned =>
      /\ \A i \in 0..(N - 1) : proofs[i + 1] = ProofRule(layers, i, Len(layers) - 1)
      /\ N = 4 => proofs[3] = <<layers[1][4], layers[2][1]>>
      /\ N = 5 => proofs[5] = <<layers[3][1]>>

C6_Witness ==
    /\ pc = "done"
    /\ N = 5
    /\ proofs[5] = <<layers[3][1]>>
    /\ proofs[4] = <<layers[1][3], layers[2][1], layers[3][2]>>

\* C7: tamper detection: once a triple verified, replacing the leaf, one proof
\* element or the root by a different digest makes verifyProof return false.
C7_TamperDetected == (pc = "tampered") => ~vresult

C7_Witness ==
    /\ pc = "tampered"
    /\ tamper = "proof"
    /\ Len(vproof) = 2
    /\ ~vresult

\* C8: the build loop runs ceil(log2(N)) times: never more layers than
\* ceil(log2(N)) + 1 while building, exactly that many when it has returned.
C8_Depth ==
    pc \in {"build", "done"} =>
      /\ Len(layers) <= CeilLog2(N) + 1
      /\ (pc = "build" /\ Len(Last(layers)) > 1) => Len(layers) < CeilLog2(N) + 1
      /\ Returned => Len(layers) = CeilLog2(N) + 1

C8_Witness ==
    /\ pc = "done"
    /\ N = 5
    /\ Len(layers) = 4

\* C9: for N a power of two every proof has length log2(N), the number of
\* layers minus one.
C9_PowerOfTwoProofLength ==
    (Returned /\ IsPowerOfTwo(N)) =>
        \A i \in 1..N : /\ Len(proofs[i]) = CeilLog2(N)
                        /\ Len(proofs[i]) = Len(layers) - 1

C9_Witness ==
    /\ pc = "done"
    /\ N = 4
    /\ \A i \in 1..4 : Len(proofs[i]) = 2

\* C10: one record: the root is the record's leaf hash, its proof is empty and
\* verifyProof(leaf, [], root) is true.
C10_SingleRecord ==
    (N = 1 /\ pc \in {"done", "verified"}) =>
        /\ merkleRoot = leafHash(records[1])
        /\ proofs = << <<>> >>
        /\ Len(layers) = 1
        /\ pc = "verified" => (vproof = <<>> /\ vresult)

C10_Witness ==
    /\ pc = "verified"
    /\ N = 1
    /\ vresult
    /\ vroot = leafHash(records[1])

----------------------------------------------------------------------------
\* C11: generateMerkleTree on an empty record list ends in an error, in both
\* implementations, and returns neither a root nor proofs; it ends in an error
\* on no other input.
C11_EmptyInput ==
    /\ (N = 0) => (pc \in {"start", "error"} /\ merkleRoot = <<>> /\ proofs = <<>>
                    /\ layers = <<>>)
    /\ (pc = "error") => (N = 0)

C11_Witness == pc = "error" /\ N = 0 /\ impl = "service"

----------------------------------------------------------------------------
(* Properties of the IoTData contract *)

\* C15: once a batch is created, no call changes any of its fields or removes
\* it: its entry in dataBatches and its position in batchList stay as they
\* were, also when createBatch is called again with the same fromIndex,
\* toIndex and merkleRoot in the same block.
C15_BatchesImmutable ==
    [][/\ \A id \in DOMAIN dataBatches :
              id \in DOMAIN dataBatches' /\ dataBatches'[id] = dataBatches[id]
       /\ Len(batchList') >= Len(batchList)
       /\ \A i \in 1..Len(batchList) : batchList'[i] = batchList[i]]_vars

\* C16: a verifyRecord call answers "Unknown Merkle root" exactly when its
\* root is not in verifiedMerkleRoots; a root enters that set only as the
\* merkleRoot of the batch a successful createBatch has just appended, the
\* known roots are at all times the roots of the stored batches, and no call
\* removes a root.
C16_KnownRoots ==
    [][/\ verifiedMerkleRoots \subseteq verifiedMerkleRoots'
       /\ verifiedMerkleRoots' =
              {dataBatches'[id].merkleRoot : id \in DOMAIN dataBatches'}
       /\ (verifiedMerkleRoots' # verifiedMerkleRoots) =>
              /\ Len(batchList') = Len(batchList) + 1
              /\ verifiedMerkleRoots' =
                     verifiedMerkleRoots \cup {dataBatches'[Last(batchList')].merkleRoot}
       /\ (lastCall' # lastCall) =>
              /\ lastCall'.call = "verifyRecord"
              /\ (lastCall'.result = "Unknown Merkle root")
                     <=> ~(lastCall'.root \in verifiedMerkleRoots)]_vars

\* a verifyRecord call got past the root check on a root that a batch registered
C16_Witness ==
    /\ lastCall.call = "verifyRecord"
    /\ lastCall.result = "true"
    /\ lastCall.root \in verifiedMerkleRoots
    /\ \E i \in 1..Len(batchList) : dataBatches[batchList[i]].merkleRoot = lastCall.root

\* C17: every call leaves the stored records as they are; storeData by an
\* authorised caller appends one record under the next id (the old record
\* count), lists that id for its device and raises the count by one; no call
\* lowers the count or rewrites a record.
C17_RecordsImmutable ==
    [][/\ Len(sensorRecords') = recordCounter'
       /\ recordCounter' \in {recordCounter, recordCounter + 1}
       /\ \A i \in 1..recordCounter : sensorRecords'[i] = sensorRecords[i]
       /\ (recordCounter' = recordCounter) => (deviceRecords' = deviceRecords)
       /\ (recordCounter' = recordCounter + 1) =>
              LET d == sensorRecords'[recordCounter + 1].deviceId
              IN /\ sensorRecords'[recordCounter + 1].timestamp = now
                 /\ deviceRecords' =
                        [deviceRecords EXCEPT ![d] = Append(@, recordCounter)]]_vars

\* two records stored, a batch created over them, a later block reached
C17_Witness ==
    /\ recordCounter = 2
    /\ deviceRecords[Str_d] = <<0, 1>>
    /\ Len(batchList) >= 1
    /\ now > sensorRecords[2].timestamp

----------------------------------------------------------------------------
(* Properties of the aggregation service *)

\* the fields of the parsed data: the members of an object in the order they
\* were added to it, the elements of an array under their indexes
fieldsOf(data) ==
    IF data.t = "object" THEN data.m
    ELSE IF data.t = "array"
    THEN [i \in 1..Len(data.m) |-> [key |-> decimalDigits(i - 1), val |-> data.m[i]]]
    ELSE <<>>

\* the field of that name holds a number
numericField(fields, key) ==
    \E i \in 1..Len(fields) : fields[i].key = key /\ fields[i].val.t = "number"

fieldNumber(fields, key) ==
    fields[CHOOSE i \in 1..Len(fields) : fields[i].key = key].val.n

\* field i comes before field j in the parsed data: the properties named by an
\* integer come first, by their value, and the other properties follow in the
\* order they were added; the elements of an array come by their index
comesBefore(fields, i, j) ==
    IF IsArrayIndex(fields[i].key) /\ IsArrayIndex(fields[j].key)
    THEN fields[i].key # fields[j].key /\ numeralLeq(fields[i].key, fields[j].key)
    ELSE IF IsArrayIndex(fields[i].key) THEN TRUE
    ELSE IF IsArrayIndex(fields[j].key) THEN FALSE
    ELSE i < j

\* the numeric field that no other numeric field of the parsed data comes before
firstNumericField(fields) ==
    IF \E i \in 1..Len(fields) : fields[i].val.t = "number"
    THEN Sample(fields[CHOOSE i \in 1..Len(fields) :
                    /\ fields[i].val.t = "number"
                    /\ \A j \in 1..Len(fields) :
                          fields[j].val.t = "number" => ~comesBefore(fields, j, i)].val.n)
    ELSE NoSample

\* the extraction order of the specification on the fields of the data
strategySample(fields, dataType) ==
    IF numericField(fields, Str_value) THEN Sample(fieldNumber(fields, Str_value))
    ELSE IF numericField(fields, dataType) THEN Sample(fieldNumber(fields, dataType))
    ELSE firstNumericField(fields)

\* the extraction order of the specification, a strategy yielding nothing when
\* its field is absent or not a number
sampleByStrategy(reading) ==
    (CHOOSE out \in {( strategySample(fields, reading.dataType)) :
          fields \in {fieldsOf(JsonParse(reading.data))}} : TRUE)

\* C20: the sample extractNumericValue returns is the value field of the parsed
\* data; when that yields nothing, the field named like the dataType; when that
\* yields nothing, the first numeric field in the order the fields appear in
\* the parsed data; when no strategy yields a number, there is no sample.
C20_ExtractionOrder ==
    (aggPc = "extracted") => (sample = sampleByStrategy(readings[1]))

\* {"b":5,"2":7} under dataType "humidity": neither named field exists, and in
\* the parsed data the property 2 comes before the property b
C20_Witness ==
    /\ aggPc = "extracted"
    /\ readings[1].dataType = Str_humidity
    /\ readings[1].data = writtenObject(<<[key |-> Str_b, text |-> decimalDigits(5)],
                                          [key |-> Str_2, text |-> decimalDigits(7)]>>)
    /\ sample = Sample(Number(7))

\* positions of the input whose reading was pushed under key
positionsOf(key) == {i \in 1..Len(argument) : groupKey(argument[i]) = key}

\* C12: two input records are in the same group exactly when they have equal
\* deviceId and equal dataType, and aggregateSensorData returns as many
\* aggregates as the input has distinct (deviceId, dataType) pairs, whatever
\* characters the strings contain.
C12_GroupByPair ==
    (aggPc = "done") =>
        /\ \A i, j \in 1..Len(argument) :
              (groupKey(argument[i]) = groupKey(argument[j]))
                 <=> (/\ argument[i].deviceId = argument[j].deviceId
                      /\ argument[i].dataType = argument[j].dataType)
        /\ Len(aggregates) =
              Cardinality({<<argument[i].deviceId, argument[i].dataType>> :
                              i \in 1..Len(argument)})

\* C13: the deviceId and dataType of every returned aggregate are those of the
\* records of its group.
C13_AggregateIdentity ==
    (aggPc = "done") =>
        \A x \in 1..Len(aggregates) : \A i \in positionsOf(aggregates[x].key) :
            /\ aggregates[x].value.deviceId = argument[i].deviceId
            /\ aggregates[x].value.dataType = argument[i].dataType

\* C14: what aggregateSensorData returns for a list of records, anomalyCount
\* included, is what it returns for that list on a freshly loaded module, no
\* matter which aggregateSensorData, prepareSensorBatch or
\* detectBatchAnomalies calls were made before.
C14_Pure ==
    (aggPc = "done") =>
        (aggregates = aggregateSensorData(argument, <<>>).aggregates)

\* the group of key in input order, and the place each record takes when the
\* group is put in ascending timestamp order with ties in input order
inputGroup(key) == groupOf(argument, key)

placeOf(group, i) ==
    1 + Cardinality({j \in 1..Len(group) :
                        \/ group[j].timestamp < group[i].timestamp
                        \/ group[j].timestamp = group[i].timestamp /\ j < i})

orderedGroup(key) ==
    LET group == inputGroup(key)
    IN [k \in 1..Len(group) |->
           group[CHOOSE i \in 1..Len(group) : placeOf(group, i) = k]]

\* C18: for every aggregate, startTimestamp and endTimestamp are the least and
\* the greatest timestamp of its group, and merkleRoot is the root of the tree
\* over the group's records in ascending timestamp order, records of equal
\* timestamp in input order; the caller's list is as it was passed.
C18_SortedGroups ==
    (aggPc = "done") =>
        /\ readings = argument
        /\ \A x \in 1..Len(aggregates) :
              LET group == inputGroup(aggregates[x].key)
                  a == aggregates[x].value
              IN /\ \A i \in 1..Len(group) :
                        /\ a.startTimestamp <= group[i].timestamp
                        /\ a.endTimestamp >= group[i].timestamp
                 /\ \E i \in 1..Len(group) : a.startTimestamp = group[i].timestamp
                 /\ \E i \in 1..Len(group) : a.endTimestamp = group[i].timestamp
                 /\ a.merkleRoot =
                       serviceGenerateMerkleTree(orderedGroup(aggregates[x].key)).merkleRoot

\* a group of three given out of order, the two earliest with equal
\* timestamps and different data
C18_Witness ==
    /\ aggPc = "done"
    /\ Len(aggregates) = 1
    /\ Len(argument) = 3
    /\ argument[1].timestamp > argument[2].timestamp
    /\ argument[2].timestamp = argument[3].timestamp
    /\ argument[2].data # argument[3].data
    /\ aggregates[1].value.startTimestamp < aggregates[1].value.endTimestamp

\* C19: aggregateSensorData never throws; recordCount of every aggregate is
\* the number of input records of its group, unparseable and number-less
\* records included; an aggregate whose group yields no numeric sample has
\* min, max, average, medianValue and standardDeviation 0.
C19_CountsAndZeroStats ==
    /\ aggPc # "threw"
    /\ (aggPc = "done") =>
          \A x \in 1..Len(aggregates) :
              LET a == aggregates[x].value
                  members == positionsOf(aggregates[x].key)
              IN /\ a.recordCount = Cardinality(members)
                 /\ (\A i \in members : ~sampleByStrategy(argument[i]).some) =>
                        /\ a.min = Zero(FALSE) /\ a.max = Zero(FALSE)
                        /\ a.average = Zero(FALSE) /\ a.medianValue = Zero(FALSE)
                        /\ a.standardDeviation = Zero(FALSE)

\* a group of an unparseable record and a record without a number
C19_Witness ==
    /\ aggPc = "done"
    /\ \E x \in 1..Len(aggregates) :
          /\ aggregates[x].value.recordCount = 2
          /\ aggregates[x].value.max = Zero(FALSE)
          /\ \E i \in positionsOf(aggregates[x].key) : argument[i].data = Str_bad
          /\ \E i \in positionsOf(aggregates[x].key) :
                JsonParse(argument[i].data).t = "object"

----------------------------------------------------------------------------
(* aggregateSensorData over one group with samples of several values *)

MaxSamples == 4

StatValues == {19, 20, 22}

\* the data of a reading with a numeric value, and of one without a number
StatTexts == {valueObject(decimalDigits(v)) : v \in StatValues} \cup {NumberlessText}

\* records of device "device-001", type "temperature", at ascending timestamps
StatReadingLists ==
    {[i \in 1..Len(texts) |->
        [deviceId |-> Str_device_001, timestamp |-> i * HourMs,
         dataType |-> Str_temperature, data |-> texts[i], location |-> Str_field]] :
     texts \in UNION {[1..n -> StatTexts] : n \in 1..MaxSamples}}

MaxValues == 3

\* the arrays calculateStatistics is handed on its own: the samples 1 and 3,
\* and the sample NaN, which is what extractNumericValue returns for a reading
\* whose data is an object (SensorReading.data: string | Record<string, any>)
\* with the value NaN: typeof NaN is 'number'
StatNumbers == {Number(1), Number(3), NaN}

StatValueLists == UNION {[1..n -> StatNumbers] : n \in 0..MaxValues}

StatInit ==
    /\ MerkleIdle /\ ChainCallInit /\ SyncIdle /\ NftIdle /\ StoreIdle /\ StatIdle
    /\ readings \in StatReadingLists \cup {<<>>}
    /\ argument = readings
    /\ historicalReadings = <<>>
    /\ aggregates = <<>>
    /\ anomalies = <<>>
    /\ sensorBatch = NoBatch
    /\ aggPc = "ready"
    /\ sample = NoSample
    /\ calls = 0

\* calculateStatistics(values), the call aggregateSensorData makes with the
\* samples of a group
CalculateStatistics(values) ==
    /\ aggPc = "ready"
    /\ readings = <<>>
    /\ numericValues' = values
    /\ statistics' = calculateStatistics(values)
    /\ aggPc' = "calculated"
    /\ calls' = calls + 1
    /\ UNCHANGED <<readings, argument, historicalReadings, aggregates, anomalies,
                   sensorBatch, sample>>
    /\ UNCHANGED merkleVars
    /\ UNCHANGED chainVars
    /\ UNCHANGED <<syncVars, nftVars, storeVars>>

StatNext ==
    \/ aggPc = "ready" /\ AggregateSensorData(readings)
    \/ \E values \in StatValueLists : CalculateStatistics(values)

StatSpec == StatInit /\ [][StatNext]_vars

\* the numeric samples of the records pushed under key, as a bag over positions
samplePositions(key) ==
    {i \in positionsOf(key) : sampleByStrategy(argument[i]).some}

sampleAt(i) == sampleByStrategy(argument[i]).n

\* the sample of rank k (1 = smallest) among the samples at positions ps
sampleOfRank(ps, k) ==
    sampleAt(CHOOSE i \in ps :
        /\ Cardinality({j \in ps : numLess(sampleAt(j), sampleAt(i))}) < k
        /\ k <= Cardinality({j \in ps : ~numLess(sampleAt(i), sampleAt(j))}))

\* a number that is a small natural number, as that number
naturalOf(n) == (limb(n.m, 1) + limb(n.m, 2) * Base) * (2 ^ n.e)

RECURSIVE sampleSum(_)
\* the sum of the samples at positions ps, which are small natural numbers
sampleSum(ps) ==
    IF ps = {} THEN 0
    ELSE LET i == CHOOSE j \in ps : TRUE IN naturalOf(sampleAt(i)) + sampleSum(ps \ {i})

\* the number nearest to the fraction num / den
nearestNumber(num, den) == roundRatio(FALSE, bigOf(num), bigOf(den), 0)

\* the records of the worked example: values 20, 22, 19
ExampleReadings ==
    [i \in 1..3 |->
        [deviceId |-> Str_device_001, timestamp |-> i * HourMs,
         dataType |-> Str_temperature,
         data |-> valueObject(decimalDigits(<<20, 22, 19>>[i])),
         location |-> Str_field]]

\* the value of rank k (1 = smallest) among the values
valueOfRank(values, k) ==
    values[CHOOSE i \in 1..Len(values) :
        /\ Cardinality({j \in 1..Len(values) : numLess(values[j], values[i])}) < k
        /\ k <= Cardinality({j \in 1..Len(values) : ~numLess(values[i], values[j])})]

RECURSIVE valueSum(_)
\* the sum of values that are small natural numbers
valueSum(values) ==
    IF values = <<>> THEN 0 ELSE naturalOf(Head(values)) + valueSum(Tail(values))

\* none of the values is NaN
NoNaN(values) == \A i \in 1..Len(values) : values[i].k # "nan"

\* what the claim says of the statistics st of the samples values: no sample is
\* below min or above max, and both are samples; for samples that are all
\* numbers, the average is their mean and the median their central value
StatisticsOfSamples(st, values) ==
    LET n == Len(values)
    IN /\ \A i \in 1..n : /\ ~numLess(values[i], st.min)
                           /\ ~numLess(st.max, values[i])
       /\ \E i \in 1..n : st.min = values[i]
       /\ \E i \in 1..n : st.max = values[i]
       /\ NoNaN(values) =>
             /\ st.average = nearestNumber(valueSum(values), n)
             /\ IF n % 2 = 1
                THEN st.median = valueOfRank(values, (n + 1) \div 2)
                ELSE numAdd(st.median, st.median)
                        = numAdd(valueOfRank(values, n \div 2),
                                 valueOfRank(values, (n \div 2) + 1))

\* the statistics of the groups aggregateSensorData has formed, and the
\* worked example
GroupStatistics ==
    (aggPc = "done") =>
        /\ \A x \in 1..Len(aggregates) :
              LET a  == aggregates[x].value
                  ps == samplePositions(aggregates[x].key)
                  n  == Cardinality(ps)
              IN (n > 0) =>
                    /\ \A i \in ps : /\ ~numLess(sampleAt(i), a.min)
                                     /\ ~numLess(a.max, sampleAt(i))
                    /\ \E i \in ps : a.min = sampleAt(i)
                    /\ \E i \in ps : a.max = sampleAt(i)
                    /\ a.average = nearestNumber(sampleSum(ps), n)
                    /\ IF n % 2 = 1
                       THEN a.medianValue = sampleOfRank(ps, (n + 1) \div 2)
                       ELSE numAdd(a.medianValue, a.medianValue)
                               = numAdd(sampleOfRank(ps, n \div 2),
                                        sampleOfRank(ps, (n \div 2) + 1))
        /\ (argument = ExampleReadings) =>
              /\ Len(aggregates) = 1
              /\ aggregates[1].value.recordCount = 3
              /\ aggregates[1].value.min = Number(19)
              /\ aggregates[1].value.max = Number(22)
              /\ aggregates[1].value.medianValue = Number(20)
              /\ aggregates[1].value.average = nearestNumber(61, 3)

\* C21: over the numeric samples of a group, min and max are the smallest and
\* the largest sample, average is the arithmetic mean, medianValue is the
\* central sorted sample for an odd count and the mean of the two central ones
\* for an even count; the three records with values 20, 22, 19 give one group
\* with recordCount 3, min 19, max 22, median 20 and average 61/3.  The
\* values are JavaScript numbers: a mean is the number nearest to the fraction.
\* The statistics of a group are those calculateStatistics returns for its
\* samples.
C21_Statistics ==
    /\ GroupStatistics
    /\ (aggPc = "calculated" /\ Len(numericValues) > 0) =>
          StatisticsOfSamples(statistics, numericValues)

\* the same for samples that are all numbers, which holds
StatisticsOfNumbers ==
    /\ GroupStatistics
    /\ (aggPc = "calculated" /\ Len(numericValues) > 0 /\ NoNaN(numericValues)) =>
          StatisticsOfSamples(statistics, numericValues)

----------------------------------------------------------------------------
(* Properties of the contract's batches *)

\* C22: a createBatch call whose caller lacks ADMIN_ROLE, or whose toIndex is
\* below fromIndex or not below the record count, leaves the stored batches,
\* the batch list and the known roots as they are; and at all times every
\* stored batch has fromIndex <= toIndex < record count.
C22_BatchRanges ==
    /\ [](\A id \in DOMAIN dataBatches :
             /\ dataBatches[id].fromIndex <= dataBatches[id].toIndex
             /\ dataBatches[id].toIndex < recordCounter)
    /\ [][\/ UNCHANGED <<dataBatches, batchList, verifiedMerkleRoots>>
          \/ \A caller \in Callers, f \in 0..MaxChainRecords, t \in 0..MaxChainRecords,
                root \in BatchRoots, description \in Descriptions :
                  \/ hasRole("ADMIN_ROLE", caller) /\ f <= t /\ t < recordCounter
                  \/ ~CreateBatch(caller, f, t, root, description)]_vars

\* a batch over records 0..1 is stored, and another over the single record 0
C22_Witness ==
    /\ recordCounter = 2
    /\ \E id \in DOMAIN dataBatches :
          dataBatches[id].fromIndex = 0 /\ dataBatches[id].toIndex = 1
    /\ \E id \in DOMAIN dataBatches :
          dataBatches[id].fromIndex = 0 /\ dataBatches[id].toIndex = 0

----------------------------------------------------------------------------
(* dataAggregation's offline store and the sync store *)

\* store.getAll(): every stored reading, in key order; the key of each
\* reading is carried along to tell which stored reading a later call is for
getUnsyncedSensorData(stored) ==
    [i \in 1..Len(stored) |-> [key |-> i, value |-> stored[i]]]

\* markSensorDataAsSynced(ids) resolves true and leaves the store as it is
markSensorDataAsSynced(stored, ids) == stored

\* the object handed to readingsStore.add: reading.data is a string here, so
\* it is stored as it is
storedReading(r) == [r EXCEPT !.data = formatSensorData(r).data]

\* prepareSensorBatch(readings) on the anomaly cache hist: whether it threw,
\* its formattedData and merkleRoot, and the cache after; generateMerkleTree
\* throws 'No records for Merkle tree' for an empty list, before the cache is
\* touched
prepareSensorBatch(rs, hist) ==
    IF Len(rs) = 0
    THEN [threw |-> TRUE, formattedData |-> <<>>, merkleRoot |-> <<>>, hist |-> hist]
    ELSE
    (CHOOSE out \in {(
      (CHOOSE out \in {(
        (CHOOSE out \in {(
          (CHOOSE out \in {(
                  [threw |-> out.threw, formattedData |-> formattedData,
                   merkleRoot |-> tree.merkleRoot, hist |-> out.hist]) :
                out \in {aggregateSensorData(rs, found.hist)}} : TRUE)) :
          found \in {detectBatchAnomalies(rs, NoThresholds, hist)}} : TRUE)) :
        tree \in {serviceGenerateMerkleTree(formattedData)}} : TRUE)) :
      formattedData \in {<<>> \o [i \in 1..Len(rs) |-> formatSensorData(rs[i])]}} : TRUE)

aggResults == <<readings, argument, aggregates, anomalies, sensorBatch, aggPc, sample, calls>>

syncState == <<created, connected, isSyncing, syncError, pendingCount, lastSyncTime,
               autoSyncEnabled, localStorage, sync, syncCalls>>

\* the transactions that are active on the sensorReadings store
activeTransactions ==
    {<<"store", k>> : k \in {k \in StoreCalls : storeCalls[k].pc = "transaction"}}
    \cup {<<"read", k>> : k \in {k \in ReadCalls : readCalls[k].pc = "getAll"}}

\* transaction tx has finished: the transactions created after it with an
\* overlapping scope may start
finished(tx, slots) == [k \in DOMAIN slots |-> [slots[k] EXCEPT !.after = @ \ {tx}]]

\* storeSensorDataOffline(rs) is called: indexedDB.open is requested
StoreSensorDataOffline(c, rs) ==
    /\ storeCalls[c].pc = "idle"
    /\ (c > 1) => (storeCalls[c - 1].pc # "idle")
    /\ storeCalls' = [storeCalls EXCEPT ![c] = [StoreCallIdle EXCEPT !.pc = "open",
                                                                      !.readings = rs]]
    /\ opening' = Append(opening, <<"store", c>>)
    /\ UNCHANGED <<db, offline, readCalls, marked>>
    /\ UNCHANGED syncState
    /\ UNCHANGED merkleVars
    /\ UNCHANGED chainVars
    /\ UNCHANGED <<nftVars, storeVars, statVars>>
    /\ UNCHANGED aggVars

\* request.onupgradeneeded of call c: the database does not exist yet, it is
\* created and the handler creates both object stores.  The request stays the
\* first of the open requests until its success or error event.
StoreUpgradeNeeded(c) ==
    /\ Len(opening) > 0
    /\ opening[1] = <<"store", c>>
    /\ storeCalls[c].pc = "open"
    /\ db = "absent"
    /\ db' = "ready"
    /\ storeCalls' = [storeCalls EXCEPT ![c].pc = "upgraded"]
    /\ UNCHANGED <<offline, readCalls, opening, marked>>
    /\ UNCHANGED syncState
    /\ UNCHANGED merkleVars
    /\ UNCHANGED chainVars
    /\ UNCHANGED <<nftVars, storeVars, statVars>>
    /\ UNCHANGED aggVars

\* request.onsuccess of call c, on a database that existed or after its
\* upgrade. On a database without the stores db.transaction throws inside the
\* callback and the promise never settles. Otherwise the readings are added
\* in a readwrite transaction and prepareSensorBatch runs on the anomaly
\* cache; when it throws, the callback ends before oncomplete and onerror are
\* set: the transaction still commits what was added, and the promise never
\* settles.
StoreOpenSucceeds(c) ==
    /\ Len(opening) > 0
    /\ opening[1] = <<"store", c>>
    /\ db # "absent"
    /\ opening' = Tail(opening)
    /\ IF db = "empty"
       THEN /\ storeCalls' = [storeCalls EXCEPT ![c].pc = "unsettled"]
            /\ UNCHANGED historicalReadings
       ELSE \E out \in {prepareSensorBatch(storeCalls[c].readings, historicalReadings)} :
               /\ historicalReadings' = out.hist
               /\ storeCalls' = [storeCalls EXCEPT ![c].pc = "transaction",
                                                   ![c].settles = ~out.threw,
                                                   ![c].after = activeTransactions]
    /\ UNCHANGED <<db, offline, readCalls, marked>>
    /\ UNCHANGED syncState
    /\ UNCHANGED aggResults
    /\ UNCHANGED merkleVars
    /\ UNCHANGED chainVars
    /\ UNCHANGED <<nftVars, storeVars, statVars>>

\* request.onerror of call c: the promise is rejected; an upgrade that had
\* created the database is undone with it
StoreOpenFails(c) ==
    /\ Len(opening) > 0
    /\ opening[1] = <<"store", c>>
    /\ opening' = Tail(opening)
    /\ db' = IF storeCalls[c].pc = "upgraded" THEN "absent" ELSE db
    /\ storeCalls' = [storeCalls EXCEPT ![c].pc = "rejected",
                                        ![c].message = "Failed to open IndexedDB"]
    /\ UNCHANGED <<offline, readCalls, marked>>
    /\ UNCHANGED syncState
    /\ UNCHANGED merkleVars
    /\ UNCHANGED chainVars
    /\ UNCHANGED <<nftVars, storeVars, statVars>>
    /\ UNCHANGED aggVars

\* the transaction of call c commits: the readings are in the store, under
\* the next keys; oncomplete resolves true
StoreCommits(c) ==
    /\ storeCalls[c].pc = "transaction"
    /\ storeCalls[c].after = {}
    /\ offline' = offline \o [i \in 1..Len(storeCalls[c].readings) |->
                                 storedReading(storeCalls[c].readings[i])]
    /\ storeCalls' = finished(<<"store", c>>,
                        [storeCalls EXCEPT ![c].pc = IF storeCalls[c].settles
                                                     THEN "resolved" ELSE "unsettled"])
    /\ readCalls' = finished(<<"store", c>>, readCalls)
    /\ UNCHANGED <<db, opening, marked>>
    /\ UNCHANGED syncState
    /\ UNCHANGED merkleVars
    /\ UNCHANGED chainVars
    /\ UNCHANGED <<nftVars, storeVars, statVars>>
    /\ UNCHANGED aggVars

\* a request of the transaction of call c fails: the transaction is aborted,
\* nothing is stored, and transaction.onerror rejects the promise
StoreFails(c) ==
    /\ storeCalls[c].pc = "transaction"
    /\ storeCalls[c].after = {}
    /\ Len(storeCalls[c].readings) > 0
    /\ storeCalls' = finished(<<"store", c>>,
                        IF storeCalls[c].settles
                        THEN [storeCalls EXCEPT ![c].pc = "rejected",
                                 ![c].message = "Failed to store sensor data in IndexedDB"]
                        ELSE [storeCalls EXCEPT ![c].pc = "unsettled"])
    /\ readCalls' = finished(<<"store", c>>, readCalls)
    /\ UNCHANGED <<db, offline, opening, marked>>
    /\ UNCHANGED syncState
    /\ UNCHANGED merkleVars
    /\ UNCHANGED chainVars
    /\ UNCHANGED <<nftVars, storeVars, statVars>>
    /\ UNCHANGED aggVars

\* a getUnsyncedSensorData call starts in slot c, for the caller named
startRead(c, caller) ==
    /\ readCalls[c].pc \in {"idle", "resolved", "rejected"}
    /\ readCalls' = [readCalls EXCEPT ![c] = [ReadCallIdle EXCEPT !.pc = "open",
                                                                   !.for = caller]]
    /\ opening' = Append(opening, <<"read", c>>)

\* the promise of the call in slot c settles. updatePendingCount goes on
\* right away: it assigns pendingCount, or its catch logs the error; a
\* syncData that awaits it goes on in a later step. syncData takes the result
\* as unsyncedData, or the error to its catch.
settleRead(c, slots, pcAfter, result, message) ==
    LET who == slots[c].for
        counted == IF pcAfter = "resolved" THEN Len(result) ELSE pendingCount
    IN IF who.kind = "caller"
       THEN /\ readCalls' = [slots EXCEPT ![c].pc = pcAfter, ![c].result = result,
                                          ![c].message = message, ![c].after = {}]
            /\ UNCHANGED <<pendingCount, sync>>
       ELSE /\ readCalls' = [slots EXCEPT ![c] = ReadCallIdle]
            /\ IF who.kind = "updatePendingCount"
               THEN /\ pendingCount' = counted
                    /\ UNCHANGED sync
               ELSE IF who.kind = "syncData.updatePendingCount"
               THEN /\ pendingCount' = counted
                    /\ sync' = [sync EXCEPT ![who.p].pc = "updated"]
               ELSE /\ sync' = [sync EXCEPT
                                  ![who.p].pc = IF pcAfter = "resolved"
                                                THEN "unsyncedData" ELSE "caught",
                                  ![who.p].data = result,
                                  ![who.p].message = message]
                    /\ UNCHANGED pendingCount

\* getUnsyncedSensorData() is called from outside the sync store
GetUnsyncedSensorData(c) ==
    /\ startRead(c, Awaiter("caller", 0))
    /\ UNCHANGED <<db, offline, storeCalls, marked>>
    /\ UNCHANGED syncState
    /\ UNCHANGED merkleVars
    /\ UNCHANGED chainVars
    /\ UNCHANGED <<nftVars, storeVars, statVars>>
    /\ UNCHANGED aggVars

\* the open request of read c succeeds. A database that does not exist yet
\* is created without object stores, as no onupgradeneeded is set. Without
\* the sensorReadings store the call resolves []; otherwise getAll is
\* requested in a readonly transaction.
ReadOpenSucceeds(c) ==
    /\ Len(opening) > 0
    /\ opening[1] = <<"read", c>>
    /\ opening' = Tail(opening)
    /\ db' = IF db = "absent" THEN "empty" ELSE db
    /\ IF db # "ready"
       THEN settleRead(c, readCalls, "resolved", <<>>, "")
       ELSE /\ readCalls' = [readCalls EXCEPT ![c].pc = "getAll",
                               ![c].after = {tx \in activeTransactions : tx[1] = "store"}]
            /\ UNCHANGED <<pendingCount, sync>>
    /\ UNCHANGED <<offline, storeCalls, marked>>
    /\ UNCHANGED <<created, connected, isSyncing, syncError, lastSyncTime,
                   autoSyncEnabled, localStorage, syncCalls>>
    /\ UNCHANGED merkleVars
    /\ UNCHANGED chainVars
    /\ UNCHANGED <<nftVars, storeVars, statVars>>
    /\ UNCHANGED aggVars

\* request.onerror of read c
ReadOpenFails(c) ==
    /\ Len(opening) > 0
    /\ opening[1] = <<"read", c>>
    /\ opening' = Tail(opening)
    /\ settleRead(c, readCalls, "rejected", <<>>, "Failed to open IndexedDB")
    /\ UNCHANGED <<db, offline, storeCalls, marked>>
    /\ UNCHANGED <<created, connected, isSyncing, syncError, lastSyncTime,
                   autoSyncEnabled, localStorage, syncCalls>>
    /\ UNCHANGED merkleVars
    /\ UNCHANGED chainVars
    /\ UNCHANGED <<nftVars, storeVars, statVars>>
    /\ UNCHANGED aggVars

\* getRequest.onsuccess of read c: every stored reading
ReadGetAllSucceeds(c) ==
    /\ readCalls[c].pc = "getAll"
    /\ readCalls[c].after = {}
    /\ settleRead(c, readCalls, "resolved", getUnsyncedSensorData(offline), "")
    /\ storeCalls' = finished(<<"read", c>>, storeCalls)
    /\ UNCHANGED <<db, offline, opening, marked>>
    /\ UNCHANGED <<created, connected, isSyncing, syncError, lastSyncTime,
                   autoSyncEnabled, localStorage, syncCalls>>
    /\ UNCHANGED merkleVars
    /\ UNCHANGED chainVars
    /\ UNCHANGED <<nftVars, storeVars, statVars>>
    /\ UNCHANGED aggVars

\* getRequest.onerror of read c
ReadGetAllFails(c) ==
    /\ readCalls[c].pc = "getAll"
    /\ readCalls[c].after = {}
    /\ settleRead(c, readCalls, "rejected", <<>>, "Failed to get unsynced sensor data")
    /\ storeCalls' = finished(<<"read", c>>, storeCalls)
    /\ UNCHANGED <<db, offline, opening, marked>>
    /\ UNCHANGED <<created, connected, isSyncing, syncError, lastSyncTime,
                   autoSyncEnabled, localStorage, syncCalls>>
    /\ UNCHANGED merkleVars
    /\ UNCHANGED chainVars
    /\ UNCHANGED <<nftVars, storeVars, statVars>>
    /\ UNCHANGED aggVars

\* markSensorDataAsSynced(ids) is called from outside the sync store: it
\* resolves true
MarkSensorDataAsSynced(ids) ==
    /\ offline' = markSensorDataAsSynced(offline, ids)
    /\ marked' = marked \cup {ids}
    /\ UNCHANGED <<db, storeCalls, readCalls, opening>>
    /\ UNCHANGED syncState
    /\ UNCHANGED merkleVars
    /\ UNCHANGED chainVars
    /\ UNCHANGED <<nftVars, storeVars, statVars>>
    /\ UNCHANGED aggVars

MaxSyncCalls == 2

\* caller p calls syncData(): the guard, then the code up to the first await,
\* the call of getUnsyncedSensorData. blockchainStore.connected is false in
\* every state of the sync store, so every call returns at the guard.
syncData(p) ==
    /\ sync[p].pc \in {"idle", "returned"}
    /\ syncCalls < MaxSyncCalls
    /\ syncCalls' = syncCalls + 1
    /\ IF isSyncing \/ ~connected
       THEN /\ sync' = [sync EXCEPT ![p] =
                          [SyncerIdle EXCEPT !.pc = "returned", !.result = "false"]]
            /\ UNCHANGED <<isSyncing, syncError, readCalls, opening>>
       ELSE /\ isSyncing' = TRUE
            /\ syncError' = "null"
            /\ sync' = [sync EXCEPT ![p] =
                          [SyncerIdle EXCEPT !.pc = "getUnsyncedSensorData", !.reads = 1]]
            /\ \E c \in ReadCalls : startRead(c, Awaiter("syncData", p))

(* The rest of syncData, past its first await. No state of the sync store     *)
(* reaches it, as the guard turns every call away; the steps are written down *)
(* as the code has them.                                                      *)

BATCH_SIZE == 5

\* "if (formattedData.length > 10)"
BatchMinimum == 10

RECURSIVE deviceIdsFrom(_, _, _)
\* the keys of groupByDevice's Map in insertion order
deviceIdsFrom(entries, i, ids) ==
    IF i > Len(entries) THEN ids
    ELSE deviceIdsFrom(entries, i + 1,
            IF \E k \in 1..Len(ids) : ids[k] = entries[i].value.deviceId
            THEN ids ELSE Append(ids, entries[i].value.deviceId))

RECURSIVE deviceGroupFrom(_, _, _)
\* the readings pushed to the group of deviceId
deviceGroupFrom(entries, deviceId, i) ==
    IF i > Len(entries) THEN <<>>
    ELSE (IF entries[i].value.deviceId = deviceId THEN <<entries[i]>> ELSE <<>>)
         \o deviceGroupFrom(entries, deviceId, i + 1)

\* groupByDevice(readings): the Map's entries in insertion order
groupByDevice(entries) ==
    (CHOOSE out \in {(
            <<>> \o [g \in 1..Len(ids) |->
                        [deviceId |-> ids[g],
                         readings |-> deviceGroupFrom(entries, ids[g], 1)]]) :
          ids \in {deviceIdsFrom(entries, 1, <<>>)}} : TRUE)

\* the arguments of blockchainStore.storeIoTData for a formatted record; the
\* local blockchainStore's storeIoTData and createBatch resolve and do nothing
storeIoTDataCall(data) ==
    <<"storeIoTData", data.deviceId, data.data, data.dataType, data.location>>

\* what is left unchanged by every step of syncData past its first await
syncDataFrame ==
    <<db, storeCalls, created, connected, autoSyncEnabled, localStorage, syncCalls>>

\* catch and finally: the error's message is recorded (the toast is not
\* modelled), false is returned, isSyncing is reset
SyncCatch(p, message) ==
    /\ sync' = [sync EXCEPT ![p].pc = "returned", ![p].result = "false"]
    /\ syncError' = message
    /\ isSyncing' = FALSE

\* the body of the loop over deviceGroups for group g, up to its first await:
\* prepareSensorBatch on the group's readings, then storeIoTData for the first
\* record of the first slice. An error thrown by prepareSensorBatch goes to
\* the catch with its message.
SyncGroup(p, me, g) ==
    \E entries \in {groupByDevice(me.data)[g].readings} :
    \E rs \in {[i \in 1..Len(entries) |-> entries[i].value]} :
       \E out \in {prepareSensorBatch(rs, historicalReadings)} :
          /\ historicalReadings' = out.hist
          /\ IF out.threw
             THEN SyncCatch(p, "error.message")
             ELSE /\ sync' = [sync EXCEPT ![p] =
                                [me EXCEPT !.pc = "storeIoTData", !.group = g, !.at = 1,
                                           !.formattedData = out.formattedData,
                                           !.merkleRoot = out.merkleRoot,
                                           !.syncedIds = <<>>,
                                           !.call = storeIoTDataCall(out.formattedData[1])]]
                  /\ UNCHANGED <<isSyncing, syncError>>

\* after a group: the next group, or updatePendingCount() is called and awaited
SyncAfterGroup(p, me) ==
    IF me.group < Len(groupByDevice(me.data))
    THEN /\ SyncGroup(p, me, me.group + 1)
         /\ UNCHANGED <<readCalls, opening>>
    ELSE /\ sync' = [sync EXCEPT ![p] =
                       [me EXCEPT !.pc = "updatePendingCount", !.reads = me.reads + 1]]
         /\ \E c \in ReadCalls : startRead(c, Awaiter("syncData.updatePendingCount", p))
         /\ UNCHANGED <<historicalReadings, isSyncing, syncError>>

\* syncData goes on with unsyncedData: nothing to sync, or the first group
SyncUnsyncedData(p) ==
    /\ sync[p].pc = "unsyncedData"
    /\ IF Len(sync[p].data) = 0
       THEN /\ pendingCount' = 0
            /\ lastSyncTime' = syncCalls
            /\ sync' = [sync EXCEPT ![p].pc = "returned", ![p].result = "true"]
            /\ isSyncing' = FALSE
            /\ UNCHANGED <<historicalReadings, syncError>>
       ELSE /\ SyncGroup(p, sync[p], 1)
            /\ UNCHANGED <<pendingCount, lastSyncTime>>
    /\ UNCHANGED <<offline, readCalls, opening, marked>>
    /\ UNCHANGED syncDataFrame
    /\ UNCHANGED aggResults
    /\ UNCHANGED merkleVars
    /\ UNCHANGED chainVars
    /\ UNCHANGED <<nftVars, storeVars, statVars>>

\* getUnsyncedSensorData was rejected: syncData's catch
SyncCaught(p) ==
    /\ sync[p].pc = "caught"
    /\ SyncCatch(p, sync[p].message)
    /\ UNCHANGED <<offline, readCalls, opening, marked, pendingCount, lastSyncTime>>
    /\ UNCHANGED syncDataFrame
    /\ UNCHANGED merkleVars
    /\ UNCHANGED chainVars
    /\ UNCHANGED <<nftVars, storeVars, statVars>>
    /\ UNCHANGED aggVars

\* storeIoTData resolves: the slice offset i is pushed to syncedIds, then the
\* next record is sent, or syncedIds is handed to markSensorDataAsSynced
StoreIoTDataResolves(p) ==
    /\ sync[p].pc = "storeIoTData"
    /\ LET me  == sync[p]
           i   == BATCH_SIZE * ((me.at - 1) \div BATCH_SIZE)
           ids == Append(me.syncedIds, i)
       IN IF me.at < Len(me.formattedData)
          THEN /\ sync' = [sync EXCEPT ![p].at = me.at + 1, ![p].syncedIds = ids,
                              ![p].call = storeIoTDataCall(me.formattedData[me.at + 1])]
               /\ UNCHANGED <<offline, marked>>
          ELSE /\ sync' = [sync EXCEPT ![p].pc = "markSensorDataAsSynced",
                                       ![p].syncedIds = ids]
               /\ offline' = markSensorDataAsSynced(offline, ids)
               /\ marked' = marked \cup {ids}
    /\ UNCHANGED <<readCalls, opening, isSyncing, syncError, pendingCount, lastSyncTime>>
    /\ UNCHANGED syncDataFrame
    /\ UNCHANGED merkleVars
    /\ UNCHANGED chainVars
    /\ UNCHANGED <<nftVars, storeVars, statVars>>
    /\ UNCHANGED aggVars

\* markSensorDataAsSynced resolves true: createBatch for a group of more than
\* ten records, otherwise on to the next group
MarkResolves(p) ==
    /\ sync[p].pc = "markSensorDataAsSynced"
    /\ IF Len(sync[p].formattedData) > BatchMinimum
       THEN /\ sync' = [sync EXCEPT ![p].pc = "createBatch",
                           ![p].call = <<"createBatch", 0,
                                         Len(sync[p].formattedData) - 1,
                                         sync[p].merkleRoot>>]
            /\ UNCHANGED <<historicalReadings, isSyncing, syncError, readCalls, opening>>
       ELSE SyncAfterGroup(p, sync[p])
    /\ UNCHANGED <<offline, marked, pendingCount, lastSyncTime>>
    /\ UNCHANGED syncDataFrame
    /\ UNCHANGED aggResults
    /\ UNCHANGED merkleVars
    /\ UNCHANGED chainVars
    /\ UNCHANGED <<nftVars, storeVars, statVars>>

\* createBatch resolves
CreateBatchResolves(p) ==
    /\ sync[p].pc = "createBatch"
    /\ SyncAfterGroup(p, sync[p])
    /\ UNCHANGED <<offline, marked, pendingCount, lastSyncTime>>
    /\ UNCHANGED syncDataFrame
    /\ UNCHANGED aggResults
    /\ UNCHANGED merkleVars
    /\ UNCHANGED chainVars
    /\ UNCHANGED <<nftVars, storeVars, statVars>>

\* the awaited updatePendingCount has returned: lastSyncTime is set (the toast
\* is not modelled), true is returned, finally resets isSyncing
SyncUpdated(p) ==
    /\ sync[p].pc = "updated"
    /\ lastSyncTime' = syncCalls
    /\ sync' = [sync EXCEPT ![p].pc = "returned", ![p].result = "true"]
    /\ isSyncing' = FALSE
    /\ UNCHANGED <<offline, readCalls, opening, marked, syncError, pendingCount>>
    /\ UNCHANGED syncDataFrame
    /\ UNCHANGED merkleVars
    /\ UNCHANGED chainVars
    /\ UNCHANGED <<nftVars, storeVars, statVars>>
    /\ UNCHANGED aggVars

\* the module is loaded: createSyncStore() runs. autoSyncEnabled is read from
\* localStorage; setupAutoSync's effect does not call syncData, as the store
\* is not connected; updatePendingCount() is called once and every 30 s
CreateSyncStore(c) ==
    /\ ~created
    /\ created' = TRUE
    /\ autoSyncEnabled' = (localStorage = "true")
    /\ startRead(c, Awaiter("updatePendingCount", 0))
    /\ UNCHANGED <<db, offline, storeCalls, marked>>
    /\ UNCHANGED <<connected, isSyncing, syncError, pendingCount, lastSyncTime,
                   localStorage, sync, syncCalls>>
    /\ UNCHANGED merkleVars
    /\ UNCHANGED chainVars
    /\ UNCHANGED <<nftVars, storeVars, statVars>>
    /\ UNCHANGED aggVars

\* updatePendingCount() is called, by the interval or through the store
UpdatePendingCount(c) ==
    /\ created
    /\ startRead(c, Awaiter("updatePendingCount", 0))
    /\ UNCHANGED <<db, offline, storeCalls, marked>>
    /\ UNCHANGED syncState
    /\ UNCHANGED merkleVars
    /\ UNCHANGED chainVars
    /\ UNCHANGED <<nftVars, storeVars, statVars>>
    /\ UNCHANGED aggVars

\* syncStore.syncData() is called by p
SyncData(p) ==
    /\ created
    /\ syncData(p)
    /\ UNCHANGED <<db, offline, storeCalls, marked>>
    /\ UNCHANGED <<created, connected, pendingCount, lastSyncTime, autoSyncEnabled,
                   localStorage>>
    /\ UNCHANGED merkleVars
    /\ UNCHANGED chainVars
    /\ UNCHANGED <<nftVars, storeVars, statVars>>
    /\ UNCHANGED aggVars

\* syncStore.toggleAutoSync(enabled) is called by p
ToggleAutoSync(p, enabled) ==
    /\ created
    /\ autoSyncEnabled' = enabled
    /\ localStorage' = IF enabled THEN "true" ELSE "false"
    /\ IF enabled
       THEN syncData(p)
       ELSE UNCHANGED <<sync, syncCalls, isSyncing, syncError, readCalls, opening>>
    /\ UNCHANGED <<db, offline, storeCalls, marked>>
    /\ UNCHANGED <<created, connected, pendingCount, lastSyncTime>>
    /\ UNCHANGED merkleVars
    /\ UNCHANGED chainVars
    /\ UNCHANGED <<nftVars, storeVars, statVars>>
    /\ UNCHANGED aggVars

MaxOffline == 1

OfflineDevices == {Str_device, Str_b}

\* the i-th reading of a list handed to storeSensorDataOffline
OfflineReading(deviceId, i) ==
    [deviceId |-> deviceId, timestamp |-> i * HourMs, dataType |-> Str_temperature,
     data |-> NumericText, location |-> Str_field]

\* lists of up to MaxOffline readings
OfflineLists ==
    {[i \in 1..Len(ds) |-> OfflineReading(ds[i], i)] :
        ds \in UNION {[1..n -> OfflineDevices] : n \in 0..MaxOffline}}

\* id arrays handed to markSensorDataAsSynced: one key each
OfflineIds == {<<k>> : k \in 1..(MaxStores * MaxOffline)}

\* a fresh browser profile, before the sync store's module is loaded
SyncInit ==
    /\ MerkleIdle /\ ChainCallInit /\ AggIdle /\ NftIdle /\ StoreIdle /\ StatIdle
    /\ SyncIdle

\* calls of dataAggregation's offline functions, without the sync store
OfflineNext ==
    \/ \E c \in StoreCalls, rs \in OfflineLists : StoreSensorDataOffline(c, rs)
    \/ \E c \in StoreCalls : StoreUpgradeNeeded(c)
    \/ \E c \in StoreCalls : StoreOpenSucceeds(c)
    \/ \E c \in StoreCalls : StoreOpenFails(c)
    \/ \E c \in StoreCalls : StoreCommits(c)
    \/ \E c \in StoreCalls : StoreFails(c)
    \/ \E c \in ReadCalls : GetUnsyncedSensorData(c)
    \/ \E c \in ReadCalls : ReadOpenSucceeds(c)
    \/ \E c \in ReadCalls : ReadOpenFails(c)
    \/ \E c \in ReadCalls : ReadGetAllSucceeds(c)
    \/ \E c \in ReadCalls : ReadGetAllFails(c)
    \/ \E ids \in OfflineIds : MarkSensorDataAsSynced(ids)

OfflineSpec == SyncInit /\ [][OfflineNext]_vars

\* the sync store, with one storeSensorDataOffline call beside it
SyncNext ==
    \/ \E rs \in OfflineLists : StoreSensorDataOffline(1, rs)
    \/ StoreUpgradeNeeded(1)
    \/ StoreOpenSucceeds(1)
    \/ StoreOpenFails(1)
    \/ StoreCommits(1)
    \/ StoreFails(1)
    \/ \E c \in ReadCalls : ReadOpenSucceeds(c)
    \/ \E c \in ReadCalls : ReadOpenFails(c)
    \/ \E c \in ReadCalls : ReadGetAllSucceeds(c)
    \/ \E c \in ReadCalls : ReadGetAllFails(c)
    \/ \E c \in ReadCalls : CreateSyncStore(c)
    \/ \E c \in ReadCalls : UpdatePendingCount(c)
    \/ \E p \in Syncers : SyncData(p)
    \/ \E p \in Syncers : SyncUnsyncedData(p)
    \/ \E p \in Syncers : SyncCaught(p)
    \/ \E p \in Syncers : StoreIoTDataResolves(p)
    \/ \E p \in Syncers : MarkResolves(p)
    \/ \E p \in Syncers : CreateBatchResolves(p)
    \/ \E p \in Syncers : SyncUpdated(p)
    \/ \E p \in Syncers, enabled \in BOOLEAN : ToggleAutoSync(p, enabled)

SyncSpec == SyncInit /\ [][SyncNext]_vars

----------------------------------------------------------------------------
(* Properties of the sync store *)

\* C23: once markSensorDataAsSynced has resolved true for the ids of stored
\* readings, getUnsyncedSensorData does not return the readings stored under
\* those ids any more.
C23_SyncedNotUnsynced ==
    \A ids \in marked : \A k \in 1..Len(ids) :
        \A j \in 1..Len(getUnsyncedSensorData(offline)) :
            getUnsyncedSensorData(offline)[j].key # ids[k]

----------------------------------------------------------------------------
(* A long run of detectAnomaly calls: the cache fills and evicts *)

\* readings offered per key of the first device: enough to overfill its history
MaxDetects == 102

\* detectAnomaly(reading, customThresholds)
DetectAnomaly(reading, customThresholds) ==
    /\ \E out \in {detectAnomaly(reading, customThresholds, historicalReadings)} :
          /\ anomalies' = IF out.report.isNull THEN <<>> ELSE <<out.report>>
          /\ historicalReadings' = out.hist
    /\ aggPc' = "detected"
    /\ argument' = <<reading>>
    /\ readings' = <<reading>>
    /\ calls' = calls + 1
    /\ UNCHANGED <<aggregates, sensorBatch, sample>>
    /\ UNCHANGED merkleVars
    /\ UNCHANGED chainVars
    /\ UNCHANGED appVars

\* the timestamp of the last reading kept for the key, 0 when there is none
lastTimestamp(key) ==
    IF key \in DOMAIN historicalReadings THEN Last(historicalReadings[key]).timestamp
    ELSE 0

\* the temperature readings of a device arrive an hour apart
NextReading(deviceId) ==
    [deviceId |-> deviceId,
     timestamp |-> lastTimestamp(deviceId \o <<Chars.dash>> \o Str_temperature) + HourMs,
     dataType |-> Str_temperature, data |-> NumericText, location |-> Str_field]

\* the humidity readings of the second device: 50 after an hour, then 61
\* so many minutes later (a change of 15 per hour after 44 minutes, of 30 per
\* hour after 22)
HumidityReading(minutes) ==
    IF lastTimestamp(Str_b \o <<Chars.dash>> \o Str_humidity) = 0
    THEN [deviceId |-> Str_b, timestamp |-> HourMs, dataType |-> Str_humidity,
          data |-> valueObject(decimalDigits(50)), location |-> Str_field]
    ELSE [deviceId |-> Str_b, timestamp |-> HourMs + minutes * 60000,
          dataType |-> Str_humidity, data |-> valueObject(decimalDigits(61)),
          location |-> Str_field]

\* no customThresholds argument, and a warning rate of 16
CustomThresholds == {NoThresholds, [rateOfChangeWarning |-> Number(16)]}

CacheInit == MerkleIdle /\ ChainCallInit /\ AppIdle /\ AggIdle

CacheNext ==
    \/ /\ NextReading(Str_device).timestamp <= MaxDetects * HourMs
       /\ DetectAnomaly(NextReading(Str_device), NoThresholds)
    \/ \E minutes \in {44, 22}, customThresholds \in CustomThresholds :
          /\ lastTimestamp(Str_b \o <<Chars.dash>> \o Str_humidity) <= HourMs
          /\ DetectAnomaly(HumidityReading(minutes), customThresholds)

CacheSpec == CacheInit /\ [][CacheNext]_vars

\* the last n elements of s (all of s when it has fewer)
LastElements(s, n) == IF Len(s) > n THEN SubSeq(s, Len(s) - n + 1, Len(s)) ELSE s

\* C25: the history of every device/data-type key holds at most 100 readings,
\* and a detectAnomaly call leaves every history as it was except that of the
\* reading's key, which becomes the last 100 of the old history followed by
\* the reading: the kept readings are the most recently added, in arrival
\* order.
C25_BoundedHistory ==
    /\ [](\A k \in DOMAIN historicalReadings : Len(historicalReadings[k]) <= 100)
    /\ [][\A k \in DOMAIN historicalReadings' :
            LET old == IF k \in DOMAIN historicalReadings
                       THEN historicalReadings[k] ELSE <<>>
            IN IF k = argument'[1].deviceId \o <<Chars.dash>> \o argument'[1].dataType
               THEN historicalReadings'[k] = LastElements(Append(old, argument'[1]), 100)
               ELSE historicalReadings'[k] = old]_vars

\* the first device's history is full and its two oldest readings are gone
C25_Witness ==
    LET key == Str_device \o <<Chars.dash>> \o Str_temperature
    IN /\ key \in DOMAIN historicalReadings
       /\ Len(historicalReadings[key]) = 100
       /\ historicalReadings[key][1].timestamp = 3 * HourMs
       /\ historicalReadings[key][100].timestamp = 102 * HourMs

----------------------------------------------------------------------------
(* NFTData: data certificates as ERC721 tokens *)

MaxHashes == 2

DataHashes == 1..MaxHashes

NftCallers == {"certifier", "holder"}

hasNftRole(role, account) == account \in nftRoles[role]

mintCertificate_state == <<tokenIds, certificates, deviceCertificates, dataCertified,
                           owners, tokenURIs, tokenApprovals>>

certificateState == <<tokenIds, certificates, deviceCertificates, dataCertified, tokenURIs>>

\* AccessControl.grantRole(role, account): every role's admin is
\* DEFAULT_ADMIN_ROLE; a caller without it is reverted
NftGrantRole(caller, role, account) ==
    /\ nftRoles' = IF hasNftRole("DEFAULT_ADMIN_ROLE", caller)
                   THEN [nftRoles EXCEPT ![role] = @ \cup {account}]
                   ELSE nftRoles
    /\ UNCHANGED <<certificateState, owners, tokenApprovals, operatorApprovals, nftCall>>
    /\ UNCHANGED merkleVars
    /\ UNCHANGED chainVars
    /\ UNCHANGED aggVars
    /\ UNCHANGED <<syncVars, storeVars, statVars>>

\* AccessControl.revokeRole(role, account)
NftRevokeRole(caller, role, account) ==
    /\ nftRoles' = IF hasNftRole("DEFAULT_ADMIN_ROLE", caller)
                   THEN [nftRoles EXCEPT ![role] = @ \ {account}]
                   ELSE nftRoles
    /\ UNCHANGED <<certificateState, owners, tokenApprovals, operatorApprovals, nftCall>>
    /\ UNCHANGED merkleVars
    /\ UNCHANGED chainVars
    /\ UNCHANGED aggVars
    /\ UNCHANGED <<syncVars, storeVars, statVars>>

\* AccessControl.renounceRole(role, account): reverted unless the account is
\* the caller
NftRenounceRole(caller, role, account) ==
    /\ nftRoles' = IF account = caller
                   THEN [nftRoles EXCEPT ![role] = @ \ {account}]
                   ELSE nftRoles
    /\ UNCHANGED <<certificateState, owners, tokenApprovals, operatorApprovals, nftCall>>
    /\ UNCHANGED merkleVars
    /\ UNCHANGED chainVars
    /\ UNCHANGED aggVars
    /\ UNCHANGED <<syncVars, storeVars, statVars>>

\* ERC721._isApprovedOrOwner(spender, tokenId) for a token that exists
isApprovedOrOwner(spender, tokenId) ==
    \/ owners[tokenId] = spender
    \/ <<owners[tokenId], spender>> \in operatorApprovals
    \/ tokenApprovals[tokenId] = spender

\* ERC721.transferFrom(from, to, tokenId): reverted for a token that does not
\* exist, a caller that is neither owner nor approved, a from that is not the
\* owner, or the zero address as to; the certificate stays as it is
TransferFrom(caller, from, to, tokenId) ==
    /\ IF /\ tokenId \in 1..tokenIds
          /\ isApprovedOrOwner(caller, tokenId)
          /\ owners[tokenId] = from
          /\ to # "zero"
       THEN /\ owners' = [owners EXCEPT ![tokenId] = to]
            /\ tokenApprovals' = [tokenApprovals EXCEPT ![tokenId] = "zero"]
       ELSE UNCHANGED <<owners, tokenApprovals>>
    /\ UNCHANGED <<certificateState, nftRoles, operatorApprovals, nftCall>>
    /\ UNCHANGED merkleVars
    /\ UNCHANGED chainVars
    /\ UNCHANGED aggVars
    /\ UNCHANGED <<syncVars, storeVars, statVars>>

\* ERC721.approve(to, tokenId): reverted for a token that does not exist, the
\* owner as to, or a caller that is neither the owner nor approved for all
Approve(caller, to, tokenId) ==
    /\ IF /\ tokenId \in 1..tokenIds
          /\ to # owners[tokenId]
          /\ caller = owners[tokenId] \/ <<owners[tokenId], caller>> \in operatorApprovals
       THEN tokenApprovals' = [tokenApprovals EXCEPT ![tokenId] = to]
       ELSE UNCHANGED tokenApprovals
    /\ UNCHANGED <<certificateState, nftRoles, owners, operatorApprovals, nftCall>>
    /\ UNCHANGED merkleVars
    /\ UNCHANGED chainVars
    /\ UNCHANGED aggVars
    /\ UNCHANGED <<syncVars, storeVars, statVars>>

\* ERC721.setApprovalForAll(operator, approved): reverted when the operator
\* is the caller
SetApprovalForAll(caller, operator, approved) ==
    /\ operatorApprovals' = IF caller = operator THEN operatorApprovals
                            ELSE IF approved
                            THEN operatorApprovals \cup {<<caller, operator>>}
                            ELSE operatorApprovals \ {<<caller, operator>>}
    /\ UNCHANGED <<certificateState, nftRoles, owners, tokenApprovals, nftCall>>
    /\ UNCHANGED merkleVars
    /\ UNCHANGED chainVars
    /\ UNCHANGED aggVars
    /\ UNCHANGED <<syncVars, storeVars, statVars>>

\* mintCertificate(to, deviceId, dataHash, tokenURI, certificationLevel)
MintCertificate(caller, to, deviceId, dataHash, tokenURI, certificationLevel) ==
    /\ IF ~hasNftRole("CERTIFIER_ROLE", caller)
       THEN /\ nftCall' = [call |-> "mintCertificate", caller |-> caller,
                           dataHash |-> dataHash, outcome |-> "AccessControl: missing role"]
            /\ UNCHANGED mintCertificate_state
       ELSE IF dataHash \in dataCertified
       THEN /\ nftCall' = [call |-> "mintCertificate", caller |-> caller,
                           dataHash |-> dataHash, outcome |-> "Data already certified"]
            /\ UNCHANGED mintCertificate_state
       ELSE IF to = "zero"
       THEN /\ nftCall' = [call |-> "mintCertificate", caller |-> caller,
                           dataHash |-> dataHash,
                           outcome |-> "ERC721: mint to the zero address"]
            /\ UNCHANGED mintCertificate_state
       ELSE /\ tokenIds' = tokenIds + 1
            /\ owners' = Append(owners, to)
            /\ tokenApprovals' = Append(tokenApprovals, "zero")
            /\ tokenURIs' = Append(tokenURIs, tokenURI)
            /\ certificates' = Append(certificates,
                                  [deviceId |-> deviceId, dataHash |-> dataHash,
                                   timestamp |-> now,
                                   certificationLevel |-> certificationLevel,
                                   certifier |-> caller, revoked |-> FALSE])
            /\ deviceCertificates' =
                  [deviceCertificates EXCEPT ![deviceId] = Append(@, tokenIds + 1)]
            /\ dataCertified' = dataCertified \cup {dataHash}
            /\ nftCall' = [call |-> "mintCertificate", caller |-> caller,
                           dataHash |-> dataHash, outcome |-> "minted"]
    /\ UNCHANGED <<nftRoles, operatorApprovals>>
    /\ UNCHANGED merkleVars
    /\ UNCHANGED chainVars
    /\ UNCHANGED aggVars
    /\ UNCHANGED <<syncVars, storeVars, statVars>>

\* a revocation that also frees the data hash
RevokeCertificate_uncertify(caller, tokenId) ==
    /\ hasNftRole("CERTIFIER_ROLE", caller)
    /\ tokenId \in 1..tokenIds
    /\ ~certificates[tokenId].revoked
    /\ certificates' = [certificates EXCEPT ![tokenId].revoked = TRUE]
    /\ dataCertified' = dataCertified \ {certificates[tokenId].dataHash}
    /\ nftCall' = [call |-> "revokeCertificate", caller |-> caller,
                   dataHash |-> certificates[tokenId].dataHash, outcome |-> "revoked"]
    /\ UNCHANGED <<tokenIds, deviceCertificates, owners, tokenURIs>>
    /\ UNCHANGED <<nftRoles, tokenApprovals, operatorApprovals>>
    /\ UNCHANGED merkleVars
    /\ UNCHANGED chainVars
    /\ UNCHANGED aggVars
    /\ UNCHANGED <<syncVars, storeVars, statVars>>

\* revokeCertificate(tokenId)
RevokeCertificate(caller, tokenId) ==
    /\ IF ~hasNftRole("CERTIFIER_ROLE", caller)
       THEN /\ nftCall' = [call |-> "revokeCertificate", caller |-> caller,
                           dataHash |-> 0, outcome |-> "AccessControl: missing role"]
            /\ UNCHANGED certificates
       ELSE IF ~(tokenId \in 1..tokenIds)
       THEN /\ nftCall' = [call |-> "revokeCertificate", caller |-> caller,
                           dataHash |-> 0, outcome |-> "Certificate does not exist"]
            /\ UNCHANGED certificates
       ELSE IF certificates[tokenId].revoked
       THEN /\ nftCall' = [call |-> "revokeCertificate", caller |-> caller,
                           dataHash |-> certificates[tokenId].dataHash,
                           outcome |-> "Certificate already revoked"]
            /\ UNCHANGED certificates
       ELSE /\ certificates' = [certificates EXCEPT ![tokenId].revoked = TRUE]
            /\ nftCall' = [call |-> "revokeCertificate", caller |-> caller,
                           dataHash |-> certificates[tokenId].dataHash,
                           outcome |-> "revoked"]
    /\ UNCHANGED <<tokenIds, deviceCertificates, dataCertified, owners, tokenURIs>>
    /\ UNCHANGED <<nftRoles, tokenApprovals, operatorApprovals>>
    /\ UNCHANGED merkleVars
    /\ UNCHANGED chainVars
    /\ UNCHANGED aggVars
    /\ UNCHANGED <<syncVars, storeVars, statVars>>

NftInit == MerkleIdle /\ ChainCallInit /\ AppIdle /\ AggIdle

NftNext ==
    \/ Tick
    \/ \E caller \in NftCallers, to \in {"holder", "zero"}, dataHash \in DataHashes :
          MintCertificate(caller, to, 1, dataHash, 1, 1)
    \/ \E caller \in NftCallers, tokenId \in 1..(MaxHashes + 1) :
          RevokeCertificate(caller, tokenId)
    \/ \E caller \in NftCallers : NftGrantRole(caller, "CERTIFIER_ROLE", "holder")
    \/ \E caller \in NftCallers : NftRevokeRole(caller, "CERTIFIER_ROLE", "holder")
    \/ \E caller \in NftCallers : NftRenounceRole(caller, "CERTIFIER_ROLE", "holder")

NftSpec == NftInit /\ [][NftNext]_vars

\* the certificates as ERC721 tokens: mints by the deployer, approvals, transfers
TokenNext ==
    \/ \E to \in {"holder", "zero"}, dataHash \in DataHashes :
          MintCertificate("certifier", to, 1, dataHash, 1, 1)
    \/ \E caller \in NftCallers, tokenId \in 1..(MaxHashes + 1) :
          RevokeCertificate(caller, tokenId)
    \/ \E caller \in NftCallers, from \in NftCallers, to \in NftAddresses,
          tokenId \in 1..(MaxHashes + 1) : TransferFrom(caller, from, to, tokenId)
    \/ \E caller \in NftCallers, to \in NftCallers, tokenId \in 1..(MaxHashes + 1) :
          Approve(caller, to, tokenId)
    \/ \E caller \in NftCallers, operator \in NftCallers, approved \in BOOLEAN :
          SetApprovalForAll(caller, operator, approved)

TokenSpec == NftInit /\ [][TokenNext]_vars

----------------------------------------------------------------------------
(* Properties of NFTData *)

\* C26: no two certificates have the same dataHash; a mintCertificate call
\* for a dataHash that already has a certificate, revoked or not, changes
\* nothing, and made by a certifier it reverts with "Data already certified".
C26_CertifiedOnce ==
    /\ [](\A i, j \in 1..tokenIds :
             (i # j) => (certificates[i].dataHash # certificates[j].dataHash))
    /\ [][(/\ nftCall' # nftCall
           /\ nftCall'.call = "mintCertificate"
           /\ \E i \in 1..tokenIds : certificates[i].dataHash = nftCall'.dataHash)
             => /\ UNCHANGED mintCertificate_state
                /\ hasNftRole("CERTIFIER_ROLE", nftCall'.caller)
                       => (nftCall'.outcome = "Data already certified")]_vars

\* a mint was refused for the hash of a revoked certificate
C26_Witness ==
    /\ nftCall.call = "mintCertificate"
    /\ nftCall.outcome = "Data already certified"
    /\ \E i \in 1..tokenIds :
          certificates[i].dataHash = nftCall.dataHash /\ certificates[i].revoked
    /\ tokenIds = 2

----------------------------------------------------------------------------
(* Properties relating the two tree builders *)

RECURSIVE layersBy(_, _)
\* the layers implementation im builds on top of the layers lys
layersBy(im, lys) ==
    IF Len(Last(lys)) > 1
    THEN layersBy(im, Append(lys, nextLayer(im, Last(lys))))
    ELSE lys

otherImpl == IF impl = "utils" THEN "service" ELSE "utils"

\* C27: for every non-empty list of records, the root and the proof of every
\* leaf index returned by one implementation of generateMerkleTree are those
\* the other implementation returns for the same list.
C27_ImplementationsAgree ==
    (pc = "done") =>
        LET lys == layersBy(otherImpl, <<generateLeaves(records)>>)
        IN /\ merkleRoot = rootOf(lys)
           /\ DOMAIN proofs = 1..Len(records)
           /\ \A i \in 1..Len(records) : proofs[i] = proofOf(otherImpl, lys, i - 1)

\* a tree over five records whose first pair is given in descending order
C27_Witness ==
    /\ pc = "done"
    /\ impl = "service"
    /\ Len(records) = 5
    /\ LexLess(layers[1][2], layers[1][1])
    /\ Len(proofs[5]) = 1

\* the list s with its elements at positions a and b exchanged
Exchanged(s, a, b) ==
    [i \in 1..Len(s) |-> IF i = a THEN s[b] ELSE IF i = b THEN s[a] ELSE s[i]]

\* C28: for every leaf list and every k with 2k+1 < N, the root buildLayers
\* returns for the list with the leaves at positions 2k and 2k+1 exchanged is
\* the root it returns for the list itself.
C28_SiblingOrder ==
    (pc = "done") =>
        \A k \in 0..Len(layers[1]) :
            (2 * k + 1 < Len(layers[1])) =>
                rootOf(layersBy(impl, <<Exchanged(layers[1], 2 * k + 1, 2 * k + 2)>>))
                    = merkleRoot

\* four leaves whose second pair holds two different leaves
C28_Witness ==
    /\ pc = "done"
    /\ Len(layers[1]) = 4
    /\ layers[1][3] # layers[1][4]
    /\ layers[1][1] = layers[1][2]
    /\ impl = "utils"

\* C29: for every leaf list L of odd length N >= 3, buildLayers ends in the
\* same root for L and for L followed by a second copy of its last leaf.
C29_OddDuplication ==
    (pc = "done" /\ Len(layers[1]) >= 3 /\ Len(layers[1]) % 2 = 1) =>
        rootOf(layersBy(impl, <<Append(layers[1], Last(layers[1]))>>)) = merkleRoot

\* a tree over five leaves, the last one different from the one before it
C29_Witness ==
    /\ pc = "done"
    /\ impl = "service"
    /\ Len(layers[1]) = 5
    /\ layers[1][5] # layers[1][4]
    /\ Len(layers) = 4

----------------------------------------------------------------------------
(* blockchainStore: the contract wrappers storeData and createBatch *)

WriteKinds == {"storeData", "createBatch"}

WritePending == {"awaitTx", "awaitWait"}

\* what the wrapper returns from its catch block
failureResult(kind) == IF kind = "storeData" THEN "-1" ELSE "''"

\* what the wrapper returns after tx.wait()
successResult(kind) == IF kind = "storeData" THEN "Number(id)" ELSE "String(batchId)"

\* catch { ...; return -1 or '' } finally { update(s => ({ ...s, loading: false })) }
WriteFails(c) ==
    /\ writes' = [writes EXCEPT ![c].pc = "returned",
                                ![c].result = failureResult(writes[c].kind)]
    /\ bstate' = [bstate EXCEPT !.loading = FALSE]

\* call c of storeData or createBatch: loading is set, then the contract is
\* looked up; without a contract the call fails at once
CallWrite(c, kind) ==
    /\ writes[c].pc = "idle"
    /\ IF bstate.contract = "null"
       THEN /\ writes' = [writes EXCEPT ![c] = [pc |-> "returned", kind |-> kind,
                                                result |-> failureResult(kind)]]
            /\ bstate' = [bstate EXCEPT !.loading = FALSE]
       ELSE /\ writes' = [writes EXCEPT ![c] = [pc |-> "awaitTx", kind |-> kind,
                                                result |-> "none"]]
            /\ bstate' = [bstate EXCEPT !.loading = TRUE]
    /\ UNCHANGED connects
    /\ UNCHANGED merkleVars
    /\ UNCHANGED chainVars
    /\ UNCHANGED aggVars
    /\ UNCHANGED <<syncVars, nftVars, statVars>>

\* "await contract.storeData(...)" / "await contract.createBatch(...)" resolves
\* with the transaction
TxSent(c) ==
    /\ writes[c].pc = "awaitTx"
    /\ writes' = [writes EXCEPT ![c].pc = "awaitWait"]
    /\ UNCHANGED bstate
    /\ UNCHANGED connects
    /\ UNCHANGED merkleVars
    /\ UNCHANGED chainVars
    /\ UNCHANGED aggVars
    /\ UNCHANGED <<syncVars, nftVars, statVars>>

\* the contract call rejects (user refusal, estimate failure)
TxRejected(c) ==
    /\ writes[c].pc = "awaitTx"
    /\ WriteFails(c)
    /\ UNCHANGED connects
    /\ UNCHANGED merkleVars
    /\ UNCHANGED chainVars
    /\ UNCHANGED aggVars
    /\ UNCHANGED <<syncVars, nftVars, statVars>>

\* "await tx.wait()" resolves: the result is returned through finally
TxMined(c) ==
    /\ writes[c].pc = "awaitWait"
    /\ writes' = [writes EXCEPT ![c].pc = "returned",
                                ![c].result = successResult(writes[c].kind)]
    /\ bstate' = [bstate EXCEPT !.loading = FALSE]
    /\ UNCHANGED connects
    /\ UNCHANGED merkleVars
    /\ UNCHANGED chainVars
    /\ UNCHANGED aggVars
    /\ UNCHANGED <<syncVars, nftVars, statVars>>

\* "await tx.wait()" rejects (the transaction reverted)
TxReverted(c) ==
    /\ writes[c].pc = "awaitWait"
    /\ WriteFails(c)
    /\ UNCHANGED connects
    /\ UNCHANGED merkleVars
    /\ UNCHANGED chainVars
    /\ UNCHANGED aggVars
    /\ UNCHANGED <<syncVars, nftVars, statVars>>

\* the store as created: not connected, no wrapper call made
StoreInit == MerkleIdle /\ ChainCallInit /\ AggIdle /\ AppIdle

StoreNext ==
    \/ \E ethereum \in BOOLEAN : ConnectWallet(ethereum)
    \/ ConnectResolves
    \/ ConnectRejects
    \/ DisconnectWallet
    \/ \E c \in WriteCalls, kind \in WriteKinds : CallWrite(c, kind)
    \/ \E c \in WriteCalls : TxSent(c)
    \/ \E c \in WriteCalls : TxRejected(c)
    \/ \E c \in WriteCalls : TxMined(c)
    \/ \E c \in WriteCalls : TxReverted(c)

StoreSpec == StoreInit /\ [][StoreNext]_vars

----------------------------------------------------------------------------
(* Properties of the blockchain store *)

\* C30: state.loading is true as long as at least one storeData or
\* createBatch call is awaiting the contract, and false once all of them have
\* returned and no connectWallet call is under way; every call that has
\* returned has returned a value (-1 or '' on failure), none has thrown.
C30_LoadingCoversWrites ==
    /\ (\E c \in WriteCalls : writes[c].pc \in WritePending) => bstate.loading
    /\ (connects = 0 /\ \A c \in WriteCalls : ~(writes[c].pc \in WritePending))
          => ~bstate.loading
    /\ \A c \in WriteCalls :
          (writes[c].pc = "returned") =>
              writes[c].result \in {failureResult(writes[c].kind),
                                    successResult(writes[c].kind)}

====
